---- MODULE Spec2Model ----
(***************************************************************************)
(* Synchronized state files of datreant (pytables-to-json.py): the         *)
(* advisory locks of File, the read/write wrappers of File and FileSerial, *)
(* and the records of the legacy (HDF5) and the current (JSON) backends.   *)
(***************************************************************************)
EXTENDS Integers, Sequences, FiniteSets, TLC

(***************************************************************************)
(* Bounds of the model.                                                    *)
(***************************************************************************)
NumProcs == 2
MaxOps == 2
MaxDeletes == 1
MaxCalls == 3
MaxRows == 6

\* calls a process makes on its object where progress is checked
MaxLiveOps == 1

\* legacy files given to one run of the migration
MaxBatch == 3

Procs == 1..NumProcs

(***************************************************************************)
(* Python values. A value is its type and its printed form, so that str()  *)
(* is a real conversion: str(1) and "1" are equal, 1 and "1" are not.      *)
(***************************************************************************)
PyStr(s) == [ty |-> "str", v |-> s]
PyInt(s) == [ty |-> "int", v |-> s]
PyList(s) == [ty |-> "list", v |-> s]
PyNone == [ty |-> "NoneType", v |-> "None"]

\* str(x)
Str(x) == [ty |-> "str", v |-> x.v]

IsScalar_any(x) == TRUE

\* isinstance(x, (int, float, string_types, bool)) or x is None
IsScalar(x) == x.ty \in {"str", "int", "float", "bool", "NoneType"}

\* datreant.__version__
VERSION == "datreant.__version__"

(***************************************************************************)
(* Sequences.                                                              *)
(***************************************************************************)
Range(s) == {s[i] : i \in DOMAIN s}

\* every order in which a Python set or dict may be iterated
Perms(S) == {s \in [1..Cardinality(S) -> S] : Range(s) = S}

\* list.remove(x): drops the first element equal to x; ValueError is passed over
RECURSIVE ListRemove(_, _)
ListRemove(s, x) ==
    IF s = <<>> THEN <<>>
    ELSE IF Head(s) = x THEN Tail(s)
    ELSE <<Head(s)>> \o ListRemove(Tail(s), x)

\* list.pop(i) / table.remove_row(i), i counted from 0; an index out of range
\* leaves the rows alone
RemoveAt(s, i) ==
    IF i < 0 \/ i >= Len(s) THEN s
    ELSE [k \in 1..(Len(s) - 1) |-> IF k <= i THEN s[k] ELSE s[k + 1]]

\* the sorted list of the 0-based positions of s whose element satisfies the
\* test: rowlist / memberlist after .sort()
RECURSIVE SortedSeq(_)
SortedSeq(S) ==
    IF S = {} THEN <<>>
    ELSE LET m == CHOOSE x \in S : \A y \in S : x <= y
         IN <<m>> \o SortedSeq(S \ {m})

RECURSIVE ShiftDelete_noshift(_, _, _)
ShiftDelete_noshift(rows, rowlist, j) ==
    IF rowlist = <<>> THEN rows
    ELSE ShiftDelete_noshift(RemoveAt(rows, Head(rowlist)), Tail(rowlist), j)

\* for i in rowlist: remove_row(i - j); j = j + 1
RECURSIVE ShiftDelete(_, _, _)
ShiftDelete(rows, rowlist, j) ==
    IF rowlist = <<>> THEN rows
    ELSE ShiftDelete(RemoveAt(rows, Head(rowlist) - j), Tail(rowlist), j + 1)

(***************************************************************************)
(* Paths: a path is absolute or relative to the working directory, and the *)
(* sequence of its components.                                             *)
(***************************************************************************)
Path(abs, parts) == [ty |-> "str", abs |-> abs, parts |-> parts]

\* None given where a path is expected
NonePath == [ty |-> "NoneType", abs |-> FALSE, parts |-> <<>>]

\* os.getcwd()
Cwd == <<"home">>

RECURSIVE CommonLen(_, _)
CommonLen(a, b) ==
    IF a = <<>> \/ b = <<>> \/ Head(a) # Head(b) THEN 0
    ELSE 1 + CommonLen(Tail(a), Tail(b))

\* os.path.abspath(p): a relative path is joined to the working directory
AbsPath(p) == IF p.abs THEN p ELSE Path(TRUE, Cwd \o p.parts)

\* os.path.relpath(p, start): both made absolute, then one ".." for every
\* component of start below the common prefix, then the rest of p
RelPath(p, start) ==
    LET a == AbsPath(p).parts
        b == AbsPath(start).parts
        c == CommonLen(a, b)
    IN Path(FALSE, [i \in 1..(Len(b) - c) |-> ".."] \o SubSeq(a, c + 1, Len(a)))

(***************************************************************************)
(* The record of the current backend: self._record, a dict. keys holds the *)
(* keys the dict has; a field whose key is absent holds its empty value.   *)
(***************************************************************************)
NoDict == <<>>

\* a _record that was never loaded or initialised
JUnset ==
    [keys |-> {}, version |-> "", tags |-> <<>>, categories |-> NoDict,
     members |-> <<>>, mds |-> [universes |-> NoDict, default |-> PyNone]]

\* TreantFile._init_record
TreantFile_init_record ==
    [JUnset EXCEPT !.keys = {"tags", "categories"}]

\* GroupFile._init_record
GroupFile_init_record ==
    [TreantFile_init_record EXCEPT !.keys = @ \cup {"members"}]

\* SimFile._init_record
SimFile_init_record ==
    [TreantFile_init_record EXCEPT !.keys = @ \cup {"mds"}]

\* what a wrapped body leaves: the record and the exception it raised ("" when
\* it returned)
Ret(rec) == [rec |-> rec, exc |-> ""]
Raise(rec, e) == [rec |-> rec, exc |-> e]

\* what a wrapped body leaves when it returns a value
Returns(rec, value) == [rec |-> rec, exc |-> "", ret |-> value]

\* the value a body returned: None when it raised or returned nothing
RetOf(res) == IF "ret" \in DOMAIN res THEN res.ret ELSE PyNone

\* dict[key] = value
DictSet(d, k, v) == [x \in DOMAIN d \cup {k} |-> IF x = k THEN v ELSE d[x]]

\* dict.pop(key, None)
DictPop(d, k) == [x \in DOMAIN d \ {k} |-> d[x]]

TreantFile_update_schema_new(rec) == VERSION

\* TreantFile.update_schema: the version the body returns
TreantFile_update_schema(rec) ==
    IF "version" \in rec.keys THEN rec.version ELSE VERSION

\* TreantFile.update_version
TreantFile_update_version(rec, version) ==
    {Ret([rec EXCEPT !.keys = @ \cup {"version"}, !.version = version])}

\* TreantFile.get_version: KeyError when the record has no version
TreantFile_get_version(rec) ==
    IF "version" \in rec.keys THEN {Ret(rec)} ELSE {Raise(rec, "KeyError")}

TreantFile_add_tags_all(rec, tags) ==
    {Ret([rec EXCEPT !.tags = @ \o tags])}

\* TreantFile.add_tags: the new tags are appended in the set's iteration order
TreantFile_add_tags(rec, tags) ==
    LET new == {t \in Range(tags) : IsScalar(t)} \ Range(rec.tags)
    IN {Ret([rec EXCEPT !.tags = @ \o order]) : order \in Perms(new)}

\* for tag in tags: self._record['tags'].remove(tag), ValueError passed over
RECURSIVE RemoveEach(_, _)
RemoveEach(list, order) ==
    IF order = <<>> THEN list
    ELSE RemoveEach(ListRemove(list, Head(order)), Tail(order))

\* TreantFile.del_tags
TreantFile_del_tags(rec, tags, all) ==
    IF all THEN {Ret([rec EXCEPT !.tags = <<>>])}
    ELSE {Ret([rec EXCEPT !.tags = RemoveEach(@, order)]) :
            order \in Perms({Str(t) : t \in Range(tags)})}

\* for key, value in categories.items(): if scalar: categories[key] = value
RECURSIVE SetEach(_, _, _)
SetEach(d, categories, order) ==
    IF order = <<>> THEN d
    ELSE LET key == Head(order)
         IN SetEach(IF IsScalar(categories[key])
                        THEN DictSet(d, key, categories[key]) ELSE d,
                    categories, Tail(order))

\* TreantFile.add_categories
TreantFile_add_categories(rec, categories) ==
    {Ret([rec EXCEPT !.categories = SetEach(@, categories, order)]) :
        order \in Perms(DOMAIN categories)}

\* for key in categories: self._record['categories'].pop(key, None)
RECURSIVE PopEach(_, _)
PopEach(d, keys) ==
    IF keys = <<>> THEN d ELSE PopEach(DictPop(d, Head(keys)), Tail(keys))

\* TreantFile.del_categories
TreantFile_del_categories(rec, keys, all) ==
    IF all THEN {Ret([rec EXCEPT !.categories = NoDict])}
    ELSE {Ret([rec EXCEPT !.categories = PopEach(@, keys)])}

\* GroupFile.add_member: a member is [uuid, treanttype, abs, rel]
GroupFile_add_member_append(rec, uuid, treanttype, basedir, location) ==
    {Ret([rec EXCEPT !.members =
            Append(@, <<uuid, treanttype, AbsPath(basedir),
                        RelPath(basedir, location)>>)])}

GroupFile_add_member(rec, uuid, treanttype, basedir, location) ==
    LET uuids == {rec.members[i][1] : i \in DOMAIN rec.members}
    IN IF uuid \notin uuids
       THEN {Ret([rec EXCEPT !.members =
                    Append(@, <<uuid, treanttype, AbsPath(basedir),
                                RelPath(basedir, location)>>)])}
       ELSE {Ret(rec)}

\* GroupFile.del_member
GroupFile_del_member(rec, uuid, all) ==
    IF all THEN {Ret([rec EXCEPT !.members = <<>>])}
    ELSE LET uuids == {Str(u) : u \in Range(uuid)}
             memberlist == SortedSeq({i - 1 : i \in
                 {k \in DOMAIN rec.members : rec.members[k][1] \in uuids}})
         IN {Ret([rec EXCEPT !.members = ShiftDelete(@, memberlist, 0)])}

\* an empty dict() for a universe, and the keys it gets
NoUdict ==
    [keys |-> {}, top |-> <<>>, traj |-> <<>>, sels |-> NoDict, resnums |-> PyNone]

RECURSIVE Segments_verbatim(_, _)
Segments_verbatim(trajectory, location) ==
    IF trajectory = <<>> \/ Head(trajectory).ty # "str" THEN <<>>
    ELSE <<<<AbsPath(Head(trajectory)), Head(trajectory)>>>>
         \o Segments_verbatim(Tail(trajectory), location)

\* the segments before the first that is not a path, made absolute and
\* relative: the loop over trajectory stops where os.path.abspath raises
RECURSIVE Segments(_, _)
Segments(trajectory, location) ==
    IF trajectory = <<>> \/ Head(trajectory).ty # "str" THEN <<>>
    ELSE <<<<AbsPath(Head(trajectory)), RelPath(Head(trajectory), location)>>>>
         \o Segments(Tail(trajectory), location)

\* bool(x)
Truthy(x) ==
    /\ x.ty # "NoneType"
    /\ ~(x.ty = "str" /\ x.v = "")
    /\ ~(x.ty = "int" /\ x.v = "0")

\* SimFile.update_default
SimFile_update_default(rec, universe) ==
    {Ret([rec EXCEPT !.mds.default = universe])}

SimFile_add_universe_fresh(rec, universe, topology, trajectory, location) ==
    LET segs == Segments(trajectory, location)
        full == [NoUdict EXCEPT !.keys = {"top", "traj", "sels", "resnums"},
                                !.top = <<AbsPath(topology),
                                          RelPath(topology, location)>>,
                                !.traj = segs]
    IN {Ret([rec EXCEPT !.mds.universes = DictSet(@, universe, full),
                        !.mds.default = IF Truthy(@) THEN @ ELSE PyStr(universe)])}

\* SimFile.add_universe
SimFile_add_universe(rec, universe, topology, trajectory, location) ==
    LET udicts == rec.mds.universes
        udict == IF universe \in DOMAIN udicts THEN udicts[universe] ELSE NoUdict
        segs == Segments(trajectory, location)
        top == [udict EXCEPT !.keys = @ \cup {"top"},
                             !.top = <<AbsPath(topology),
                                       RelPath(topology, location)>>]
        traj == [top EXCEPT !.keys = @ \cup {"traj"}, !.traj = segs]
        full == [traj EXCEPT !.keys = @ \cup {"sels", "resnums"}]
        With(u) == [rec EXCEPT !.mds.universes = DictSet(@, universe, u)]
    IN IF topology.ty # "str" THEN {Raise(With(udict), "TypeError")}
       ELSE IF Len(segs) < Len(trajectory) THEN {Raise(With(traj), "TypeError")}
       ELSE {Ret([With(full) EXCEPT !.mds.default =
                    IF Truthy(@) THEN @ ELSE PyStr(universe)])}

\* SimFile.del_universe
SimFile_del_universe(rec, universe) ==
    IF universe \notin DOMAIN rec.mds.universes THEN {Raise(rec, "KeyError")}
    ELSE {Ret([rec EXCEPT !.mds.universes = DictPop(@, universe)])}

SimFile_rename_universe_over(rec, universe, newname) ==
    IF universe \notin DOMAIN rec.mds.universes THEN {Raise(rec, "KeyError")}
    ELSE {Ret([rec EXCEPT !.mds.universes =
                DictSet(DictPop(@, universe), newname,
                        rec.mds.universes[universe])])}

\* SimFile.rename_universe
SimFile_rename_universe(rec, universe, newname) ==
    LET udicts == rec.mds.universes
    IN IF newname \in DOMAIN udicts THEN {Raise(rec, "ValueError")}
       ELSE IF universe \notin DOMAIN udicts THEN {Raise(rec, "KeyError")}
       ELSE {Ret([rec EXCEPT !.mds.universes =
                    DictSet(DictPop(@, universe), newname, udicts[universe])])}

\* GroupFile.get_member: the member's fields, None when no member has the uuid
GroupFile_get_member(rec, uuid) ==
    IF "members" \notin rec.keys THEN {Raise(rec, "KeyError")}
    ELSE LET found == {i \in DOMAIN rec.members : rec.members[i][1] = uuid}
         IN IF found = {} THEN {Returns(rec, PyNone)}
            ELSE {Returns(rec, PyList(rec.members[CHOOSE i \in found :
                                        \A j \in found : j <= i]))}

\* SimFile.get_universe
SimFile_get_universe(rec, universe) ==
    IF universe \notin DOMAIN rec.mds.universes THEN {Raise(rec, "KeyError")}
    ELSE {Returns(rec, PyList(<<rec.mds.universes[universe].top,
                                rec.mds.universes[universe].traj>>))}

\* SimFile.update_resnums: a universe that is not there is logged and the
\* method returns
SimFile_update_resnums(rec, universe, resnums) ==
    IF universe \notin DOMAIN rec.mds.universes THEN {Ret(rec)}
    ELSE {Ret([rec EXCEPT !.mds.universes[universe].resnums = resnums])}

\* SimFile.get_resnums
SimFile_get_resnums(rec, universe) ==
    IF universe \notin DOMAIN rec.mds.universes THEN {Raise(rec, "KeyError")}
    ELSE {Returns(rec, rec.mds.universes[universe].resnums)}

(***************************************************************************)
(* The file of the legacy backend: the nodes of the HDF5 file and the rows *)
(* of each table. A table whose node is absent holds no rows.              *)
(***************************************************************************)
HEmpty ==
    [nodes |-> {}, version |-> <<>>, coordinator |-> <<>>, tags |-> <<>>,
     categories |-> <<>>, members |-> <<>>, default |-> <<>>,
     universes |-> NoDict]

\* TreantFileHDF5.update_schema: the version the body returns
TreantFileHDF5_update_schema(h) ==
    IF "version" \in h.nodes THEN h.version[1] ELSE VERSION

\* TreantFileHDF5.update_version
TreantFileHDF5_update_version(h, version) ==
    {Ret([h EXCEPT !.nodes = @ \cup {"version"}, !.version = <<version>>])}

\* TreantFileHDF5.update_coordinator, with no coordinator given: the row holds
\* the string "None"
TreantFileHDF5_update_coordinator(h) ==
    {Ret([h EXCEPT !.nodes = @ \cup {"coordinator"},
                   !.coordinator = <<Str(PyNone)>>])}

\* TreantFileHDF5.get_version
TreantFileHDF5_get_version(h) ==
    IF "version" \in h.nodes THEN {Ret(h)} ELSE {Raise(h, "NoSuchNodeError")}

\* TreantFileHDF5.get_tags
TreantFileHDF5_get_tags(h) ==
    IF "tags" \in h.nodes THEN {Ret(h)} ELSE {Raise(h, "NoSuchNodeError")}

\* TreantFileHDF5.get_categories
TreantFileHDF5_get_categories(h) ==
    IF "categories" \in h.nodes THEN {Ret(h)} ELSE {Raise(h, "NoSuchNodeError")}

\* TreantFileHDF5.add_tags
TreantFileHDF5_add_tags(h, tags) ==
    LET new == {Str(t) : t \in Range(tags)} \ Range(h.tags)
    IN {Ret([h EXCEPT !.nodes = @ \cup {"tags"}, !.tags = @ \o order]) :
            order \in Perms(new)}

\* the rows (counted from 0) whose field is one of the given values, sorted
RowList(rows, field, values) ==
    SortedSeq({i - 1 : i \in {k \in DOMAIN rows : rows[k][field] \in values}})

\* the deletion shared by del_tags, del_categories and del_member: every row
\* matched drops and recreates the table, otherwise the rows are removed one
\* by one
DeleteRows(rows, rowlist) ==
    IF Len(rowlist) = Len(rows) THEN <<>> ELSE ShiftDelete(rows, rowlist, 0)

Recreated_removed(nodes, name, emptied) ==
    IF emptied THEN nodes \ {name} ELSE nodes

\* the nodes of the file after a deletion: when every row goes, the table is
\* removed with table.remove() and created again with create_table
Recreated(nodes, name, emptied) ==
    IF emptied THEN (nodes \ {name}) \cup {name} ELSE nodes

\* TreantFileHDF5.del_tags
TreantFileHDF5_del_tags(h, tags, all) ==
    IF "tags" \notin h.nodes THEN {Raise(h, "NoSuchNodeError")}
    ELSE IF all
    THEN {Ret([h EXCEPT !.nodes = Recreated(@, "tags", TRUE), !.tags = <<>>])}
    ELSE LET want == {Str(t) : t \in Range(tags)}
             rowlist == SortedSeq({i - 1 : i \in
                            {k \in DOMAIN h.tags : h.tags[k] \in want}})
         IN {Ret([h EXCEPT !.nodes = Recreated(@, "tags",
                                        Len(rowlist) = Len(h.tags)),
                           !.tags = DeleteRows(@, rowlist)])}

UpdateRows_kept(rows, categories) == rows

\* for row in table: for key in categories.keys(): if row['category'] == key:
\* row['value'] = str(categories[key])
UpdateRows(rows, categories) ==
    [i \in DOMAIN rows |->
        IF rows[i].category \in DOMAIN categories
        THEN [rows[i] EXCEPT !.value = Str(categories[rows[i].category])]
        ELSE rows[i]]

\* TreantFileHDF5.add_categories: the keys that matched no row are appended
\* in the dict's iteration order
TreantFileHDF5_add_categories(h, categories) ==
    LET old == {h.categories[i].category : i \in DOMAIN h.categories}
        new == DOMAIN categories \ old
    IN {Ret([h EXCEPT !.nodes = @ \cup {"categories"},
                      !.categories = UpdateRows(@, categories) \o
                        [i \in DOMAIN order |->
                            [category |-> order[i],
                             value |-> Str(categories[order[i]])]]]) :
            order \in Perms(new)}

\* TreantFileHDF5.del_categories
TreantFileHDF5_del_categories(h, keys, all) ==
    IF "categories" \notin h.nodes THEN {Raise(h, "NoSuchNodeError")}
    ELSE IF all
    THEN {Ret([h EXCEPT !.nodes = Recreated(@, "categories", TRUE),
                        !.categories = <<>>])}
    ELSE {Ret([h EXCEPT !.nodes = Recreated(@, "categories",
                Len(RowList(h.categories, "category", Range(keys)))
                    = Len(h.categories)),
                        !.categories =
                DeleteRows(@, RowList(@, "category", Range(keys)))])}

\* GroupFileHDF5._make_membertable
GroupFileHDF5_make_membertable(h) ==
    {Ret([h EXCEPT !.nodes = @ \cup {"members"}])}

\* GroupFileHDF5.add_member
GroupFileHDF5_add_member(h, uuid, treanttype, basedir, location) ==
    LET rownum == RowList(h.members, "uuid", {uuid})
    IN IF rownum # <<>>
       THEN {Ret([h EXCEPT !.nodes = @ \cup {"members"},
                    !.members[rownum[1] + 1] =
                        [@ EXCEPT !.abspath = AbsPath(basedir),
                                  !.relCont = RelPath(basedir, location)]])}
       ELSE {Ret([h EXCEPT !.nodes = @ \cup {"members"},
                    !.members = Append(@,
                        [uuid |-> uuid, treanttype |-> treanttype,
                         abspath |-> AbsPath(basedir),
                         relCont |-> RelPath(basedir, location)])])}

\* GroupFileHDF5.del_member
GroupFileHDF5_del_member(h, uuid, all) ==
    IF "members" \notin h.nodes THEN {Raise(h, "NoSuchNodeError")}
    ELSE IF all
    THEN {Ret([h EXCEPT !.nodes = Recreated(@, "members", TRUE), !.members = <<>>])}
    ELSE {Ret([h EXCEPT !.nodes = Recreated(@, "members",
                Len(RowList(h.members, "uuid", {Str(u) : u \in Range(uuid)}))
                    = Len(h.members)),
                        !.members =
                DeleteRows(@, RowList(@, "uuid", {Str(u) : u \in Range(uuid)}))])}

\* SimFileHDF5._make_universegroup
SimFileHDF5_make_universegroup(h) ==
    {Ret([h EXCEPT !.nodes = @ \cup {"universes"}])}

\* SimFileHDF5.update_default: the column is a string column, so the table
\* holds str(universe)
SimFileHDF5_update_default(h, universe) ==
    {Ret([h EXCEPT !.nodes = @ \cup {"default"}, !.default = <<Str(universe)>>])}

\* a universe group that was just created
NoGroup ==
    [nodes |-> {}, topology |-> <<>>, trajectory |-> <<>>, resnums |-> <<>>,
     selections |-> NoDict]

\* the rows of the trajectory table, up to the first segment that is not a
\* path
RowsOf(segs) == [i \in DOMAIN segs |-> [abspath |-> segs[i][1], relCont |-> segs[i][2]]]

\* SimFileHDF5.add_universe: every step changes the open file, and a step
\* that raises leaves what the steps before it did
SimFileHDF5_add_universe(h, universe, topology, trajectory, location) ==
    LET exists == universe \in DOMAIN h.universes
        With(g) == [h EXCEPT !.nodes = @ \cup {"universes"},
                             !.universes = DictSet(@, universe, g)]
        old == IF exists THEN h.universes[universe] ELSE NoGroup
        \* remove_node topology, then remove_node trajectory
        notop == [old EXCEPT !.nodes = @ \ {"topology"}, !.topology = <<>>]
        cleared == [notop EXCEPT !.nodes = @ \ {"trajectory"}, !.trajectory = <<>>]
        \* create_table topology
        toptable == [cleared EXCEPT !.nodes = @ \cup {"topology"}]
        toprow == [toptable EXCEPT !.topology =
                    <<[abspath |-> AbsPath(topology),
                       relCont |-> RelPath(topology, location)]>>]
        segs == Segments(trajectory, location)
        trajtable == [toprow EXCEPT !.nodes = @ \cup {"trajectory"},
                                    !.trajectory = RowsOf(segs)]
        full == [trajtable EXCEPT !.nodes = @ \cup {"selections"}]
    IN IF exists /\ "topology" \notin old.nodes
       THEN {Raise(h, "NoSuchNodeError")}
       ELSE IF exists /\ "trajectory" \notin old.nodes
       THEN {Raise(With(notop), "NoSuchNodeError")}
       ELSE IF topology.ty # "str" THEN {Raise(With(toptable), "TypeError")}
       ELSE IF Len(segs) < Len(trajectory) THEN {Raise(With(trajtable), "TypeError")}
       ELSE {Ret(With(full))}

\* SimFileHDF5.del_universe
SimFileHDF5_del_universe_tables(h, universe) ==
    IF universe \notin DOMAIN h.universes THEN {Raise(h, "KeyError")}
    ELSE {Ret([h EXCEPT !.universes[universe].nodes = @ \ {"topology", "trajectory"},
                        !.universes[universe].topology = <<>>,
                        !.universes[universe].trajectory = <<>>])}

SimFileHDF5_del_universe(h, universe) ==
    IF universe \notin DOMAIN h.universes THEN {Raise(h, "KeyError")}
    ELSE {Ret([h EXCEPT !.universes = DictPop(@, universe)])}

SimFileHDF5_rename_universe_copy(h, universe, newname) ==
    IF universe \notin DOMAIN h.universes THEN {Raise(h, "KeyError")}
    ELSE IF newname \in DOMAIN h.universes THEN {Raise(h, "ValueError")}
    ELSE {Ret([h EXCEPT !.universes = DictSet(@, newname, h.universes[universe])])}

\* SimFileHDF5.rename_universe
SimFileHDF5_rename_universe(h, universe, newname) ==
    IF universe \notin DOMAIN h.universes THEN {Raise(h, "KeyError")}
    ELSE IF newname \in DOMAIN h.universes THEN {Raise(h, "ValueError")}
    ELSE {Ret([h EXCEPT !.universes =
                DictSet(DictPop(@, universe), newname, h.universes[universe])])}

\* GroupFileHDF5.get_member: the member's fields, None when no row has the
\* uuid
GroupFileHDF5_get_member(h, uuid) ==
    IF "members" \notin h.nodes THEN {Raise(h, "NoSuchNodeError")}
    ELSE LET found == {i \in DOMAIN h.members : h.members[i].uuid = uuid}
         IN IF found = {} THEN {Returns(h, PyNone)}
            ELSE {Returns(h, PyList(h.members[CHOOSE i \in found :
                                        \A j \in found : j <= i]))}

\* SimFileHDF5.get_universe
SimFileHDF5_get_universe(h, universe) ==
    IF \/ universe \notin DOMAIN h.universes
       \/ ~({"topology", "trajectory"} \subseteq h.universes[universe].nodes)
    THEN {Raise(h, "KeyError")}
    ELSE {Returns(h, PyList(<<h.universes[universe].topology,
                              h.universes[universe].trajectory>>))}

SimFileHDF5_update_resnums_append(h, universe, resnums) ==
    IF universe \notin DOMAIN h.universes THEN {Ret(h)}
    ELSE {Ret([h EXCEPT !.universes[universe].nodes = @ \cup {"resnums"},
                        !.universes[universe].resnums = @ \o resnums])}

\* SimFileHDF5.update_resnums: a universe that is not there is logged and
\* the method returns; a resnums table that is there is replaced
SimFileHDF5_update_resnums(h, universe, resnums) ==
    IF universe \notin DOMAIN h.universes THEN {Ret(h)}
    ELSE {Ret([h EXCEPT !.universes[universe].nodes = @ \cup {"resnums"},
                        !.universes[universe].resnums = resnums])}

\* SimFileHDF5.get_resnums: None when the universe or its table is not there
SimFileHDF5_get_resnums(h, universe) ==
    IF \/ universe \notin DOMAIN h.universes
       \/ "resnums" \notin h.universes[universe].nodes
    THEN {Returns(h, PyNone)}
    ELSE {Returns(h, PyList(h.universes[universe].resnums))}

(***************************************************************************)
(* MixinJSON: the record as the JSON document written to the file. Every   *)
(* value becomes the JSON value of its type, and back.                     *)
(***************************************************************************)
JsonType(ty) ==
    CASE ty = "str" -> "string"
      [] ty = "int" -> "number-int"
      [] ty = "float" -> "number-real"
      [] ty = "bool" -> "boolean"
      [] ty = "NoneType" -> "null"
      [] OTHER -> "array"

PyType(jt) ==
    CASE jt = "string" -> "str"
      [] jt = "number-int" -> "int"
      [] jt = "number-real" -> "float"
      [] jt = "boolean" -> "bool"
      [] jt = "null" -> "NoneType"
      [] OTHER -> "list"

JsonValue(x) == [jt |-> JsonType(x.ty), v |-> x.v]
PyValue(j) == [ty |-> PyType(j.jt), v |-> j.v]

\* MixinJSON._serialize
Serialize(rec) ==
    [rec EXCEPT !.tags = [i \in DOMAIN @ |-> JsonValue(@[i])],
                !.categories = [k \in DOMAIN @ |-> JsonValue(@[k])],
                !.mds.default = JsonValue(@)]

\* MixinJSON._deserialize
Deserialize(doc) ==
    [doc EXCEPT !.tags = [i \in DOMAIN @ |-> PyValue(@[i])],
                !.categories = [k \in DOMAIN @ |-> PyValue(@[k])],
                !.mds.default = PyValue(@)]

(***************************************************************************)
(* The state: one record file, its proxy file, and one state-file object   *)
(* per process.                                                            *)
(***************************************************************************)
VARIABLES
    backend,    \* the format of the record file: "hdf5" (legacy) or "json"
    file,       \* the record file: [exists, data]
    proxy,      \* whether the proxy file exists
    lock,       \* the lock each process holds on the proxy file
    fd,         \* self.fd: "None", "r" or "rw"
    nfds,       \* the descriptors each process has open on the proxy file
    fdlock,     \* self.fdlock: "None", "shared" or "exclusive"
    handle,     \* self.handle of a legacy object: [open, mode, data]
    record,     \* self._record of a current object
    stack,      \* the wrapped calls each process is in, outermost first
    ctor,       \* 0: no object yet; 1..4: the next call of create(); Done
    kwargs,     \* the keywords given to the constructor
    ret,        \* the version update_schema returned
    exc,        \* the exception the last top-level call raised, "" if none
    nops,       \* top-level calls made after construction
    loads,      \* loads of the record file in the current top-level call
    stores,     \* stores of the record file in the current top-level call
    nacq,       \* locks requested from the system in the current call
    nrel,       \* locks released to the system in the current call
    committed,  \* the record the completed Writes amount to, in lock order
    ndel,       \* removals of the record file from outside
    hfile,      \* a legacy record file, used by one process
    jfile,      \* a current record file given the same calls
    hprev,      \* hfile before the last call
    jprev,      \* jfile before the last call
    last,       \* the last call: its name, arguments and exceptions
    calls,      \* the calls made
    batch       \* a run of the migration over a list of legacy files

vars ==
    <<backend, file, proxy, lock, fd, nfds, fdlock, handle, record, stack,
      ctor, kwargs, ret, exc, nops, loads, stores, nacq, nrel, committed, ndel,
      hfile, jfile, hprev, jprev, last, calls, batch>>

\* the state of the two files given the same calls, and the migration run,
\* which the processes that share one record file leave alone
seqvars == <<hfile, jfile, hprev, jprev, last, calls, batch>>

\* the state of the processes that share one record file
txvars ==
    <<backend, file, proxy, lock, fd, nfds, fdlock, handle, record, stack,
      ctor, kwargs, ret, exc, nops, loads, stores, nacq, nrel, committed, ndel,
      batch>>

\* the calls TreantFile.create makes
CreateSteps == 4

Done == CreateSteps + 1

TagA == PyStr("a")
TagB == PyStr("b")

\* a call of a facade method: its name and its arguments; sub are the wrapped
\* calls a composite method makes, in order
Op(name, tags, categories, all, version, sub) ==
    [name |-> name, tags |-> tags, categories |-> categories, all |-> all,
     version |-> version, sub |-> sub]

Simple(name) == Op(name, <<>>, NoDict, FALSE, "", <<>>)
add_tags(tags) == Op("add_tags", tags, NoDict, FALSE, "", <<>>)
del_tags(tags, all) == Op("del_tags", tags, NoDict, all, "", <<>>)
add_categories(categories) == Op("add_categories", <<>>, categories, FALSE, "", <<>>)
update_version(version) == Op("update_version", <<>>, NoDict, FALSE, version, <<>>)

\* TreantFileHDF5.create: a Write that calls five Writes
TreantFileHDF5_create(kw) ==
    Op("create", <<>>, NoDict, FALSE, "",
       <<Simple("update_schema"), update_version("ret"),
         Simple("update_coordinator"), add_tags(kw.tags),
         add_categories(kw.categories)>>)

\* TreantFile.create: the call it makes at each step, each a transaction of
\* its own
TreantFile_create(kw, step, version) ==
    CASE step = 1 -> Simple("update_schema")
      [] step = 2 -> update_version(version)
      [] step = 3 -> add_tags(kw.tags)
      [] OTHER -> add_categories(kw.categories)

ReadNames == {"get_version", "get_tags", "get_categories", "read_composite"}

\* the methods under _read / the methods under _write
IsRead(op) == op.name \in ReadNames

LockMode_shared(op) == "shared"

\* _shlock under _read, _exlock under _write
LockMode(op) == IF IsRead(op) THEN "shared" ELSE "exclusive"

Grantable_alone(p, mode) == \A q \in Procs \ {p} : lock[q] = "none"

\* fcntl.lockf: a shared lock is granted unless another process holds the
\* exclusive one, an exclusive lock when no other process holds any
Grantable(p, mode) ==
    \A q \in Procs \ {p} :
        IF mode = "shared" THEN lock[q] # "exclusive" ELSE lock[q] = "none"

Reentrant_never(p, op) == FALSE

\* if self.fdlock: (under _read) / if self.fdlock == 'exclusive': (under _write)
Reentrant(p, op) ==
    IF IsRead(op) THEN fdlock[p] # "None" ELSE fdlock[p] = "exclusive"

Frame(op, owner, pc) == [op |-> op, owner |-> owner, pc |-> pc, exc |-> "", step |-> 1]

Top(p) == stack[p][Len(stack[p])]

SetTop(p, f) == [stack EXCEPT ![p] = [@ EXCEPT ![Len(@)] = f]]

\* where the wrapped function starts: FileSerial's methods load the record
\* under _pull / _pull_push, the legacy methods go straight to the body
FuncPc == IF backend = "json" THEN "pull" ELSE "body"

AfterBody_exit(op) == "exit"

\* where a body that returned goes: _push_record under _pull_push
AfterBody(op) == IF backend = "json" /\ ~IsRead(op) THEN "push" ELSE "exit"

\* the argument `version` of update_version is what update_schema returned
Resolve(p, op) == IF op.version = "ret" THEN [op EXCEPT !.version = ret[p]] ELSE op

\* the body of a method of the current backend, on self._record
JBody(op, rec) ==
    CASE op.name = "update_schema" -> {Ret(rec)}
      [] op.name = "update_version" -> TreantFile_update_version(rec, op.version)
      [] op.name = "get_version" -> TreantFile_get_version(rec)
      [] op.name = "add_tags" -> TreantFile_add_tags(rec, op.tags)
      [] op.name = "del_tags" -> TreantFile_del_tags(rec, op.tags, op.all)
      [] op.name = "add_categories" -> TreantFile_add_categories(rec, op.categories)
      [] OTHER -> {Ret(rec)}

\* the body of a method of the legacy backend, on the open file; a closed
\* handle raises
HBody(op, h) ==
    IF ~h.open THEN {Raise(h.data, "ClosedFileError")}
    ELSE CASE op.name = "update_schema" -> {Ret(h.data)}
           [] op.name = "update_version" ->
                TreantFileHDF5_update_version(h.data, op.version)
           [] op.name = "update_coordinator" ->
                TreantFileHDF5_update_coordinator(h.data)
           [] op.name = "get_version" -> TreantFileHDF5_get_version(h.data)
           [] op.name = "get_tags" -> TreantFileHDF5_get_tags(h.data)
           [] op.name = "get_categories" -> TreantFileHDF5_get_categories(h.data)
           [] op.name = "add_tags" -> TreantFileHDF5_add_tags(h.data, op.tags)
           [] op.name = "del_tags" -> TreantFileHDF5_del_tags(h.data, op.tags, op.all)
           [] op.name = "add_categories" ->
                TreantFileHDF5_add_categories(h.data, op.categories)
           [] OTHER -> {Ret(h.data)}

\* what update_schema returns
SchemaVersion(p) ==
    IF backend = "json" THEN TreantFile_update_schema(record[p])
    ELSE TreantFileHDF5_update_schema(handle[p].data)

(***************************************************************************)
(* The record as its users see it: the version if any, the tags as a set,  *)
(* the categories as a map.                                                *)
(***************************************************************************)
AbsEmpty == [version |-> <<>>, tags |-> {}, categories |-> NoDict]

AbsJson(rec) ==
    [version |-> IF "version" \in rec.keys THEN <<rec.version>> ELSE <<>>,
     tags |-> Range(rec.tags),
     categories |-> rec.categories]

AbsHdf5(h) ==
    [version |-> h.version,
     tags |-> Range(h.tags),
     categories |->
        [k \in {h.categories[i].category : i \in DOMAIN h.categories} |->
            (CHOOSE r \in Range(h.categories) : r.category = k).value]]

AbsFile ==
    IF ~file.exists THEN AbsEmpty
    ELSE IF backend = "json" THEN AbsJson(Deserialize(file.data))
    ELSE AbsHdf5(file.data)

\* what a completed Write amounts to
RECURSIVE Effect(_, _)
Effect(op, a) ==
    CASE op.name = "update_version" -> [a EXCEPT !.version = <<op.version>>]
      [] op.name = "add_tags" -> [a EXCEPT !.tags = @ \cup Range(op.tags)]
      [] op.name = "del_tags" ->
            [a EXCEPT !.tags = IF op.all THEN {} ELSE @ \ Range(op.tags)]
      [] op.name = "add_categories" ->
            [a EXCEPT !.categories =
                [k \in DOMAIN @ \cup DOMAIN op.categories |->
                    IF k \in DOMAIN op.categories THEN op.categories[k] ELSE @[k]]]
      [] op.name = "create" ->
            Effect(op.sub[5], Effect(op.sub[4],
                [a EXCEPT !.version = IF @ = <<>> THEN <<VERSION>> ELSE @]))
      [] op.name = "write_composite" ->
            IF op.sub = <<>> THEN a
            ELSE Effect([op EXCEPT !.sub = Tail(@)], Effect(Head(op.sub), a))
      [] OTHER -> a

(***************************************************************************)
(* Init: no record file, no proxy file, no object.                         *)
(***************************************************************************)
NoHandle == [open |-> FALSE, mode |-> "r", data |-> HEmpty]

NoFile == [exists |-> FALSE, data |-> <<>>]

NoCall ==
    [name |-> "", args |-> <<>>, hexc |-> "", jexc |-> "",
     hret |-> PyNone, jret |-> PyNone]

\* no migration run
NoBatch == [inputs |-> <<>>, done |-> 0, outputs |-> {}, report |-> <<>>]

\* no call made on the pair of files
SeqIdle ==
    /\ batch = NoBatch
    /\ hfile = NoFile
    /\ jfile = NoFile
    /\ hprev = NoFile
    /\ jprev = NoFile
    /\ last = NoCall
    /\ calls = 0

\* no object in any process
NoObject ==
    /\ SeqIdle
    /\ backend \in {"hdf5", "json"}
    /\ proxy = FALSE
    /\ lock = [p \in Procs |-> "none"]
    /\ fd = [p \in Procs |-> "None"]
    /\ nfds = [p \in Procs |-> 0]
    /\ fdlock = [p \in Procs |-> "None"]
    /\ handle = [p \in Procs |-> NoHandle]
    /\ record = [p \in Procs |-> JUnset]
    /\ stack = [p \in Procs |-> <<>>]
    /\ ctor = [p \in Procs |-> 0]
    /\ kwargs = [p \in Procs |-> [tags |-> <<>>, categories |-> NoDict]]
    /\ ret = [p \in Procs |-> ""]
    /\ exc = [p \in Procs |-> ""]
    /\ nops = [p \in Procs |-> 0]
    /\ loads = [p \in Procs |-> 0]
    /\ stores = [p \in Procs |-> 0]
    /\ nacq = [p \in Procs |-> 0]
    /\ nrel = [p \in Procs |-> 0]
    /\ ndel = 0

Init ==
    /\ NoObject
    /\ file = NoFile
    /\ committed = AbsEmpty

\* the keywords a constructor is given
CtorKwargs ==
    {[tags |-> t, categories |-> NoDict] : t \in {<<>>, <<TagA>>}}

\* the calls a process makes on its object
Writes ==
    {add_tags(<<TagA>>), add_tags(<<TagB>>), del_tags(<<TagA>>, FALSE),
     add_categories([k \in {"k"} |-> PyStr("v")])}

Reads == {Simple("get_tags"), Simple("get_version")}

(***************************************************************************)
(* File.__init__ and the wrappers File._read, File._write,                 *)
(* FileSerial._read, FileSerial._write, _pull and _pull_push, step by step.*)
(***************************************************************************)

\* errno of "File exists"
EEXIST == 17

\* the errors of os.open other than EEXIST that the directory of the record
\* can give: no such directory, permission denied
OtherErrnos == {2, 13}

\* os.open(self.proxy, os.O_CREAT | os.O_EXCL): the errno of the OSError it
\* raises, 0 when it created the file; the existence test and the creation
\* are one system call
OpenExcl(exists) == IF exists THEN {EEXIST} ELSE {0} \cup OtherErrnos

Ignored_any(errno) == TRUE

\* except OSError as e: if e.errno == 17: pass / else: raise
Ignored(errno) == errno \in {0, EEXIST}

\* File.__init__: the proxy file is created unless it exists; an error other
\* than EEXIST leaves the constructor
Construct(p) ==
    /\ ctor[p] = 0
    /\ fd' = [fd EXCEPT ![p] = "None"]
    /\ fdlock' = [fdlock EXCEPT ![p] = "None"]
    /\ handle' = [handle EXCEPT ![p] = NoHandle]
    /\ \E errno \in OpenExcl(proxy) :
        /\ proxy' = (proxy \/ errno = 0)
        /\ IF Ignored(errno)
           THEN /\ \E kw \in CtorKwargs : kwargs' = [kwargs EXCEPT ![p] = kw]
                /\ ctor' = [ctor EXCEPT ![p] = 1]
                /\ exc' = [exc EXCEPT ![p] = ""]
           ELSE /\ exc' = [exc EXCEPT ![p] = "OSError"]
                /\ UNCHANGED <<kwargs, ctor>>
    /\ UNCHANGED <<seqvars, backend, file, lock, nfds, record, stack, ret, nops,
                   loads, stores, nacq, nrel, committed, ndel>>

\* inner(), up to the request of the lock: a call made under a lock that is
\* strong enough runs the function at once, any other opens a descriptor on
\* the proxy file (_open_fd_r, _open_fd_rw), then asks for the lock
Enter(p, op) ==
    IF Reentrant(p, op)
    THEN /\ stack' = [stack EXCEPT ![p] = Append(@, Frame(op, FALSE, FuncPc))]
         /\ UNCHANGED <<fd, nfds>>
    ELSE /\ stack' = [stack EXCEPT ![p] = Append(@, Frame(op, TRUE, "lock"))]
         /\ fd' = [fd EXCEPT ![p] = IF IsRead(op) THEN "r" ELSE "rw"]
         /\ nfds' = [nfds EXCEPT ![p] = @ + 1]

EnterTop(p, op) ==
    /\ stack[p] = <<>>
    /\ Enter(p, op)
    /\ loads' = [loads EXCEPT ![p] = 0]
    /\ stores' = [stores EXCEPT ![p] = 0]
    /\ nacq' = [nacq EXCEPT ![p] = 0]
    /\ nrel' = [nrel EXCEPT ![p] = 0]
    /\ exc' = [exc EXCEPT ![p] = ""]
    /\ UNCHANGED <<seqvars, backend, file, proxy, lock, fdlock, handle, record, ctor,
                   kwargs, ret, committed, ndel>>

\* the constructor calls create(): one Write in the legacy backend, four
\* transactions in the current one
CtorCall(p) ==
    /\ ctor[p] \in 1..CreateSteps
    /\ EnterTop(p, IF backend = "hdf5" THEN TreantFileHDF5_create(kwargs[p])
                   ELSE TreantFile_create(kwargs[p], ctor[p], ret[p]))
    /\ UNCHANGED nops

\* a call of a facade method on a constructed object
Call(p) ==
    /\ ctor[p] = Done
    /\ nops[p] < MaxOps
    /\ \E op \in Writes \cup Reads : EnterTop(p, op)
    /\ nops' = [nops EXCEPT ![p] = @ + 1]

\* _shlock / _exlock return: the lock is granted, then self.fdlock is set
Acquire(p) ==
    /\ stack[p] # <<>>
    /\ Top(p).pc = "lock"
    /\ Grantable(p, LockMode(Top(p).op))
    /\ lock' = [lock EXCEPT ![p] = LockMode(Top(p).op)]
    /\ fdlock' = [fdlock EXCEPT ![p] = LockMode(Top(p).op)]
    /\ nacq' = [nacq EXCEPT ![p] = @ + 1]
    /\ stack' = SetTop(p, [Top(p) EXCEPT !.pc =
                    IF backend = "hdf5" THEN "open" ELSE FuncPc])
    /\ UNCHANGED <<seqvars, backend, file, proxy, fd, nfds, handle, record, ctor, kwargs,
                   ret, exc, nops, loads, stores, nrel, committed, ndel>>

\* self.handle = self._open_file_r() / self._open_file_w() of File._read and
\* File._write, before the try: mode 'r' raises IOError when the file is
\* absent, and the exception leaves inner() with the lock held; mode 'a'
\* creates the file
OpenFile(p) ==
    /\ stack[p] # <<>>
    /\ Top(p).pc = "open"
    /\ IF IsRead(Top(p).op) /\ ~file.exists
       THEN /\ stack' = [stack EXCEPT ![p] = SubSeq(@, 1, Len(@) - 1)]
            /\ exc' = [exc EXCEPT ![p] = "IOError"]
            /\ UNCHANGED <<file, handle>>
       ELSE /\ file' = IF file.exists THEN file
                       ELSE [exists |-> TRUE, data |-> HEmpty]
            /\ handle' = [handle EXCEPT ![p] =
                            [open |-> TRUE,
                             mode |-> IF IsRead(Top(p).op) THEN "r" ELSE "a",
                             data |-> file'.data]]
            /\ stack' = SetTop(p, [Top(p) EXCEPT !.pc = "body"])
            /\ loads' = [loads EXCEPT ![p] = @ + 1]
            /\ UNCHANGED exc
    /\ IF IsRead(Top(p).op) /\ ~file.exists THEN UNCHANGED loads ELSE TRUE
    /\ UNCHANGED <<seqvars, backend, proxy, lock, fd, nfds, fdlock, record, ctor, kwargs,
                   ret, nops, stores, nacq, nrel, committed, ndel>>

PullRecord_stale(p) == IF record[p].keys = {} THEN Deserialize(file.data) ELSE record[p]

\* _pull_record: the file is opened, parsed and closed
PullRecord(p) == Deserialize(file.data)

\* _pull.inner and _pull_push.inner up to the call of the function: IOError
\* (no file) is caught by _pull_push, which starts from _init_record, and
\* leaves _pull
Pull(p) ==
    /\ stack[p] # <<>>
    /\ Top(p).pc = "pull"
    /\ IF file.exists
       THEN /\ record' = [record EXCEPT ![p] = PullRecord(p)]
            /\ stack' = SetTop(p, [Top(p) EXCEPT !.pc = "body"])
       ELSE IF IsRead(Top(p).op)
       THEN /\ stack' = SetTop(p, [Top(p) EXCEPT !.pc = "exit", !.exc = "IOError"])
            /\ UNCHANGED record
       ELSE /\ record' = [record EXCEPT ![p] = TreantFile_init_record]
            /\ stack' = SetTop(p, [Top(p) EXCEPT !.pc = "body"])
    /\ loads' = [loads EXCEPT ![p] = @ + 1]
    /\ UNCHANGED <<seqvars, backend, file, proxy, lock, fd, nfds, fdlock, handle, ctor,
                   kwargs, ret, exc, nops, stores, nacq, nrel, committed, ndel>>

\* the body of a method that calls no wrapped method
RunBody(p) ==
    /\ stack[p] # <<>>
    /\ Top(p).pc = "body"
    /\ Top(p).op.sub = <<>>
    /\ LET op == Top(p).op
       IN /\ ret' = [ret EXCEPT ![p] =
                        IF op.name = "update_schema" THEN SchemaVersion(p) ELSE @]
          /\ IF backend = "json"
             THEN /\ \E res \in JBody(op, record[p]) :
                        /\ record' = [record EXCEPT ![p] = res.rec]
                        /\ stack' = SetTop(p, [Top(p) EXCEPT
                                        !.exc = res.exc,
                                        !.pc = IF res.exc = "" THEN AfterBody(op)
                                               ELSE "exit"])
                  /\ UNCHANGED handle
             ELSE /\ \E res \in HBody(op, handle[p]) :
                        /\ handle' = [handle EXCEPT ![p].data = res.rec]
                        /\ stack' = SetTop(p, [Top(p) EXCEPT
                                        !.exc = res.exc, !.pc = "exit"])
                  /\ UNCHANGED record
    /\ UNCHANGED <<seqvars, backend, file, proxy, lock, fd, nfds, fdlock, ctor, kwargs,
                   exc, nops, loads, stores, nacq, nrel, committed, ndel>>

\* the body of a composite method calls its next wrapped method
CallNested(p) ==
    /\ stack[p] # <<>>
    /\ Top(p).pc = "body"
    /\ Top(p).op.sub # <<>>
    /\ Enter(p, Resolve(p, Top(p).op.sub[Top(p).step]))
    /\ UNCHANGED <<seqvars, backend, file, proxy, lock, fdlock, handle, record, ctor,
                   kwargs, ret, exc, nops, loads, stores, nacq, nrel, committed,
                   ndel>>

\* _push_record: the file is opened for writing, the record serialized, the
\* file closed
Push(p) ==
    /\ stack[p] # <<>>
    /\ Top(p).pc = "push"
    /\ file' = [exists |-> TRUE, data |-> Serialize(record[p])]
    /\ stores' = [stores EXCEPT ![p] = @ + 1]
    /\ stack' = SetTop(p, [Top(p) EXCEPT !.pc = "exit"])
    /\ UNCHANGED <<seqvars, backend, proxy, lock, fd, nfds, fdlock, handle, record, ctor,
                   kwargs, ret, exc, nops, loads, nacq, nrel, committed, ndel>>

\* the caller's frame once the call it made has left with exception e
Resume(parent, e) ==
    IF e # "" THEN [parent EXCEPT !.exc = e, !.pc = "exit"]
    ELSE IF parent.step = Len(parent.op.sub)
    THEN [parent EXCEPT !.pc = AfterBody(parent.op)]
    ELSE [parent EXCEPT !.step = @ + 1]

\* the step of create() the constructor is at once a call of it has left
CtorNext(p, e) ==
    IF ctor[p] = Done THEN Done
    ELSE IF e # "" THEN 0
    ELSE IF backend = "hdf5" \/ ctor[p] = CreateSteps THEN Done
    ELSE ctor[p] + 1

\* the end of inner(): the finally clause of the call that took the lock
\* (the legacy handle is closed, which writes the file, then _unlock,
\* _close_fd, self.fdlock = None), then the return to the caller. When
\* self.fd is None, fcntl.lockf(None, LOCK_UN) raises TypeError and the rest
\* of the finally clause is not run
Return(p) ==
    /\ stack[p] # <<>>
    /\ Top(p).pc = "exit"
    /\ LET f == Top(p)
           rest == SubSeq(stack[p], 1, Len(stack[p]) - 1)
           flush == backend = "hdf5" /\ f.owner /\ handle[p].open
                    /\ handle[p].mode = "a"
           nofd == f.owner /\ fd[p] = "None"
           e == IF nofd THEN "TypeError" ELSE f.exc
       IN /\ IF f.owner
             THEN /\ file' = IF flush THEN [file EXCEPT !.data = handle[p].data]
                             ELSE file
                  /\ handle' = [handle EXCEPT ![p].open = FALSE]
                  /\ IF nofd
                     THEN UNCHANGED <<lock, fd, nfds, fdlock, nrel>>
                     ELSE /\ lock' = [lock EXCEPT ![p] = "none"]
                          /\ fd' = [fd EXCEPT ![p] = "None"]
                          /\ nfds' = [nfds EXCEPT ![p] = @ - 1]
                          /\ fdlock' = [fdlock EXCEPT ![p] = "None"]
                          /\ nrel' = [nrel EXCEPT ![p] = @ + 1]
             ELSE UNCHANGED <<file, handle, lock, fd, nfds, fdlock, nrel>>
          /\ IF rest = <<>>
             THEN /\ stack' = [stack EXCEPT ![p] = <<>>]
                  /\ exc' = [exc EXCEPT ![p] = e]
                  /\ ctor' = [ctor EXCEPT ![p] = CtorNext(p, e)]
                  /\ committed' =
                        IF e = "" /\ ~IsRead(f.op) THEN Effect(f.op, committed)
                        ELSE committed
             ELSE /\ stack' = [stack EXCEPT ![p] =
                        [rest EXCEPT ![Len(rest)] = Resume(@, e)]]
                  /\ UNCHANGED <<exc, ctor, committed>>
    /\ UNCHANGED <<seqvars, backend, proxy, record, kwargs, ret, nops, loads, stores,
                   nacq, ndel>>

\* a method under _write that calls wrapped methods, as TreantFileHDF5.create
\* does, and a method under _read that calls methods under _read
Composites ==
    {Op("write_composite", <<>>, NoDict, FALSE, "", sub) :
        sub \in {<<add_tags(<<TagB>>), Simple("get_tags")>>,
                 <<Simple("get_version"), add_tags(<<TagA>>)>>}}
    \cup {Op("read_composite", <<>>, NoDict, FALSE, "",
             <<Simple("get_tags"), Simple("get_version")>>)}

\* a call of a composite method on a constructed object
CallComposite(p) ==
    /\ ctor[p] = Done
    /\ nops[p] < MaxOps
    /\ \E op \in Composites : EnterTop(p, op)
    /\ nops' = [nops EXCEPT ![p] = @ + 1]

\* the record file is removed from outside while no process holds a lock
ExternalDelete ==
    /\ file.exists
    /\ ndel < MaxDeletes
    /\ \A p \in Procs : lock[p] = "none"
    /\ file' = NoFile
    /\ committed' = AbsEmpty
    /\ ndel' = ndel + 1
    /\ UNCHANGED <<seqvars, backend, proxy, lock, fd, nfds, fdlock, handle, record, stack,
                   ctor, kwargs, ret, exc, nops, loads, stores, nacq, nrel>>

Next ==
    \E p \in Procs :
        \/ Construct(p)
        \/ CtorCall(p)
        \/ Call(p)
        \/ Acquire(p)
        \/ OpenFile(p)
        \/ Pull(p)
        \/ RunBody(p)
        \/ CallNested(p)
        \/ Push(p)
        \/ Return(p)

Spec == Init /\ [][Next]_vars

\* the same with calls of composite methods
NextNest == Next \/ \E p \in Procs : CallComposite(p)

SpecNest == Init /\ [][NextNest]_vars

\* the same with the record file removed from outside
NextIO == Next \/ ExternalDelete

SpecIO == Init /\ [][NextIO]_vars

(***************************************************************************)
(* One process, two record files: every call is made on a legacy file and  *)
(* on a current file, each as one whole top-level transaction.             *)
(***************************************************************************)

\* File._write opens the file in mode 'a', which creates it: what the body
\* of a top-level call works on
Hdf5Open(f) == IF f.exists THEN f.data ELSE HEmpty

\* the finally clause of File._write closes the handle, which writes what the
\* body did, whether it returned or raised
Hdf5Close(f, res) == [file |-> [exists |-> TRUE, data |-> res.rec], exc |-> res.exc]

\* FileSerial._pull_push loads the record, or initialises it when there is
\* no file: what the body of a top-level call works on
SerialPull(f, init) == IF f.exists THEN Deserialize(f.data) ELSE init

\* FileSerial._pull_push stores the record if the body returned
SerialPush(f, res) ==
    [file |-> IF res.exc = ""
              THEN [exists |-> TRUE, data |-> Serialize(res.rec)] ELSE f,
     exc |-> res.exc]

\* the one result of a body that has one
Only(S) == (CHOOSE res \in S : TRUE).rec

\* the record file's directory: File.get_location
Location == Path(TRUE, <<"data", "group">>)

\* GroupFileHDF5(filename): create() and _make_membertable() on a new file
GroupFileHDF5_new ==
    LET h1 == Only(TreantFileHDF5_update_version(HEmpty,
                        TreantFileHDF5_update_schema(HEmpty)))
        h2 == Only(TreantFileHDF5_update_coordinator(h1))
        h3 == Only(TreantFileHDF5_add_tags(h2, <<>>))
        h4 == Only(TreantFileHDF5_add_categories(h3, NoDict))
    IN [exists |-> TRUE, data |-> Only(GroupFileHDF5_make_membertable(h4))]

\* GroupFile(filename): the four transactions of create() on a new file
GroupFile_new ==
    LET r1 == Only(TreantFile_update_version(GroupFile_init_record,
                        TreantFile_update_schema(GroupFile_init_record)))
        r2 == Only(TreantFile_add_tags(r1, <<>>))
        r3 == Only(TreantFile_add_categories(r2, NoDict))
    IN [exists |-> TRUE, data |-> Serialize(r3)]

\* no transaction of the lock protocol is in progress
TxIdle ==
    /\ batch = NoBatch
    /\ backend = "json"
    /\ file = NoFile
    /\ proxy = TRUE
    /\ lock = [p \in Procs |-> "none"]
    /\ fd = [p \in Procs |-> "None"]
    /\ nfds = [p \in Procs |-> 0]
    /\ fdlock = [p \in Procs |-> "None"]
    /\ handle = [p \in Procs |-> NoHandle]
    /\ record = [p \in Procs |-> JUnset]
    /\ stack = [p \in Procs |-> <<>>]
    /\ ctor = [p \in Procs |-> 0]
    /\ kwargs = [p \in Procs |-> [tags |-> <<>>, categories |-> NoDict]]
    /\ ret = [p \in Procs |-> ""]
    /\ exc = [p \in Procs |-> ""]
    /\ nops = [p \in Procs |-> 0]
    /\ loads = [p \in Procs |-> 0]
    /\ stores = [p \in Procs |-> 0]
    /\ nacq = [p \in Procs |-> 0]
    /\ nrel = [p \in Procs |-> 0]
    /\ committed = AbsEmpty
    /\ ndel = 0

InitGroup ==
    /\ hfile = GroupFileHDF5_new
    /\ jfile = GroupFile_new
    /\ hprev = GroupFileHDF5_new
    /\ jprev = GroupFile_new
    /\ last = NoCall
    /\ calls = 0
    /\ TxIdle

\* the same call on both files, given what its body leaves on each
Both(name, args, hres, jres) ==
    /\ calls < MaxCalls
    /\ \E hr \in hres, jr \in jres :
        /\ hfile' = Hdf5Close(hfile, hr).file
        /\ jfile' = SerialPush(jfile, jr).file
        /\ last' = [name |-> name, args |-> args, hexc |-> hr.exc,
                    jexc |-> jr.exc, hret |-> RetOf(hr), jret |-> RetOf(jr)]
    /\ hprev' = hfile
    /\ jprev' = jfile
    /\ calls' = calls + 1
    /\ UNCHANGED txvars

\* the records the bodies of a call work on
H == Hdf5Open(hfile)
JGroup == SerialPull(jfile, GroupFile_init_record)
JSim == SerialPull(jfile, SimFile_init_record)

\* the arguments of the calls
TagArgs == {<<TagA>>, <<TagA, TagA>>, <<TagA, TagB>>, <<PyInt("1")>>}
CategoryArgs ==
    {[k \in {"k"} |-> PyStr("v")], [k \in {"k"} |-> PyStr("w")],
     [k \in {"n"} |-> PyInt("2")]}
Uuids == {PyStr("uuid-1"), PyStr("uuid-2")}
Basedirs ==
    {Path(TRUE, <<"data", "m1">>), Path(TRUE, <<"data", "group", "m2">>),
     Path(FALSE, <<"m3">>)}

G_add_tags ==
    \E tags \in TagArgs :
        Both("add_tags", <<tags>>,
             TreantFileHDF5_add_tags(H, tags),
             TreantFile_add_tags(JGroup, tags))

G_del_tags ==
    \E tags \in TagArgs, all \in BOOLEAN :
        Both("del_tags", <<tags, all>>,
             TreantFileHDF5_del_tags(H, tags, all),
             TreantFile_del_tags(JGroup, tags, all))

G_add_categories ==
    \E categories \in CategoryArgs :
        Both("add_categories", <<categories>>,
             TreantFileHDF5_add_categories(H, categories),
             TreantFile_add_categories(JGroup, categories))

G_del_categories ==
    \E keys \in {<<"k">>, <<"k", "n">>}, all \in BOOLEAN :
        Both("del_categories", <<keys, all>>,
             TreantFileHDF5_del_categories(H, keys, all),
             TreantFile_del_categories(JGroup, keys, all))

G_add_member ==
    \E uuid \in Uuids, basedir \in Basedirs :
        Both("add_member", <<uuid, basedir>>,
             GroupFileHDF5_add_member(H, uuid, PyStr("Treant"),
                                                 basedir, Location),
             GroupFile_add_member(JGroup, uuid, PyStr("Treant"),
                                             basedir, Location))

G_del_member ==
    \E uuid \in {<<PyStr("uuid-1")>>, <<PyStr("uuid-1"), PyStr("uuid-2")>>},
       all \in BOOLEAN :
        Both("del_member", <<uuid, all>>,
             GroupFileHDF5_del_member(H, uuid, all),
             GroupFile_del_member(JGroup, uuid, all))

NextGroup ==
    \/ G_add_tags
    \/ G_del_tags
    \/ G_add_categories
    \/ G_del_categories
    \/ G_add_member
    \/ G_del_member

SpecGroup == InitGroup /\ [][NextGroup]_vars

\* SimFileHDF5(filename): create() on a new file
SimFileHDF5_new ==
    LET h1 == Only(SimFileHDF5_make_universegroup(GroupFileHDF5_new.data))
        h2 == [h1 EXCEPT !.nodes = @ \ {"members"}]
    IN [exists |-> TRUE, data |-> Only(SimFileHDF5_update_default(h2, PyNone))]

\* SimFile(filename): the four transactions of create() on a new file
SimFile_new ==
    LET r1 == Only(TreantFile_update_version(SimFile_init_record,
                        TreantFile_update_schema(SimFile_init_record)))
        r2 == Only(TreantFile_add_tags(r1, <<>>))
        r3 == Only(TreantFile_add_categories(r2, NoDict))
    IN [exists |-> TRUE, data |-> Serialize(r3)]

InitSim ==
    /\ hfile = SimFileHDF5_new
    /\ jfile = SimFile_new
    /\ hprev = SimFileHDF5_new
    /\ jprev = SimFile_new
    /\ last = NoCall
    /\ calls = 0
    /\ TxIdle

\* the arguments of the calls: None stands where a path is expected
Universes == {"u", "w"}
Topologies == {Path(TRUE, <<"data", "top">>), Path(FALSE, <<"top">>), NonePath}
Trajectories == {<<>>, <<Path(TRUE, <<"data", "traj">>)>>,
                 <<Path(TRUE, <<"data", "traj">>), NonePath>>}
Defaults == {PyNone, PyStr("u"), PyStr("x")}

S_add_universe ==
    \E universe \in Universes, topology \in Topologies,
       trajectory \in Trajectories :
        Both("add_universe", <<universe, topology, trajectory>>,
             SimFileHDF5_add_universe(H, universe, topology,
                                                 trajectory, Location),
             SimFile_add_universe(JSim, universe, topology,
                                             trajectory, Location))

S_del_universe ==
    \E universe \in Universes :
        Both("del_universe", <<universe>>,
             SimFileHDF5_del_universe(H, universe),
             SimFile_del_universe(JSim, universe))

\* the two names differ
S_rename_universe ==
    \E universe \in Universes, newname \in Universes :
        /\ universe # newname
        /\ Both("rename_universe", <<universe, newname>>,
                SimFileHDF5_rename_universe(H, universe, newname),
                SimFile_rename_universe(JSim, universe, newname))

S_update_default ==
    \E universe \in Defaults :
        Both("update_default", <<universe>>,
             SimFileHDF5_update_default(H, universe),
             SimFile_update_default(JSim, universe))

NextSim ==
    \/ S_add_universe
    \/ S_del_universe
    \/ S_rename_universe
    \/ S_update_default

SpecSim == InitSim /\ [][NextSim]_vars

\* a group record with n members, n tags and n categories, in each backend
NameOf(i) == PyStr(ToString(i))
KeyOf(i) == ToString(i)
BasedirOf(i) == Path(TRUE, <<"data", ToString(i)>>)

GroupFileHDF5_with(n) ==
    [exists |-> TRUE,
     data |-> [GroupFileHDF5_new.data EXCEPT
        !.members = [i \in 1..n |->
            [uuid |-> NameOf(i), treanttype |-> PyStr("Treant"),
             abspath |-> AbsPath(BasedirOf(i)),
             relCont |-> RelPath(BasedirOf(i), Location)]],
        !.tags = [i \in 1..n |-> NameOf(i)],
        !.categories = [i \in 1..n |-> [category |-> KeyOf(i), value |-> NameOf(i)]]]]

GroupFile_with(n) ==
    [exists |-> TRUE,
     data |-> Serialize([Deserialize(GroupFile_new.data) EXCEPT
        !.members = [i \in 1..n |->
            <<NameOf(i), PyStr("Treant"), AbsPath(BasedirOf(i)),
              RelPath(BasedirOf(i), Location)>>],
        !.tags = [i \in 1..n |-> NameOf(i)],
        !.categories = [k \in {KeyOf(i) : i \in 1..n} |-> PyStr(k)]])]

InitDelete ==
    /\ \E n \in 0..MaxRows :
        /\ hfile = GroupFileHDF5_with(n)
        /\ jfile = GroupFile_with(n)
        /\ hprev = GroupFileHDF5_with(n)
        /\ jprev = GroupFile_with(n)
    /\ last = NoCall
    /\ calls = 0
    /\ TxIdle

\* the names of the positions in S, as the arguments of a call
ArgsOf(S) == [k \in 1..Cardinality(S) |-> NameOf(SortedSeq(S)[k])]
KeysOf(S) == [k \in 1..Cardinality(S) |-> KeyOf(SortedSeq(S)[k])]

D_del_member ==
    \E S \in SUBSET (1..MaxRows) :
        /\ calls = 0
        /\ Both("del_member", <<ArgsOf(S), FALSE>>,
                GroupFileHDF5_del_member(H, ArgsOf(S), FALSE),
                GroupFile_del_member(JGroup, ArgsOf(S), FALSE))

D_del_tags ==
    \E S \in SUBSET (1..MaxRows) :
        /\ calls = 0
        /\ Both("del_tags", <<ArgsOf(S), FALSE>>,
                TreantFileHDF5_del_tags(H, ArgsOf(S), FALSE),
                TreantFile_del_tags(JGroup, ArgsOf(S), FALSE))

D_del_categories ==
    \E S \in SUBSET (1..MaxRows) :
        /\ calls = 0
        /\ Both("del_categories", <<KeysOf(S), FALSE>>,
                TreantFileHDF5_del_categories(H, KeysOf(S), FALSE),
                TreantFile_del_categories(JGroup, KeysOf(S), FALSE))

NextDelete ==
    \/ D_del_member
    \/ D_del_tags
    \/ D_del_categories

SpecDelete == InitDelete /\ [][NextDelete]_vars

\* a Read on both files: neither file is written
BothRead(name, args, hres, jres) ==
    /\ calls < MaxCalls
    /\ \E hr \in hres, jr \in jres :
        last' = [name |-> name, args |-> args, hexc |-> hr.exc,
                 jexc |-> jr.exc, hret |-> RetOf(hr), jret |-> RetOf(jr)]
    /\ hprev' = hfile
    /\ jprev' = jfile
    /\ calls' = calls + 1
    /\ UNCHANGED <<hfile, jfile>>
    /\ UNCHANGED txvars

\* the pair of files is a pair of group records, or of simulation records
IsGroup == "members" \in hfile.data.nodes
IsSim == "universes" \in hfile.data.nodes

InitLookup ==
    /\ \/ hfile = GroupFileHDF5_new /\ jfile = GroupFile_new
       \/ hfile = SimFileHDF5_new /\ jfile = SimFile_new
    /\ hprev = hfile
    /\ jprev = jfile
    /\ last = NoCall
    /\ calls = 0
    /\ TxIdle

ResnumsArg == <<PyInt("1"), PyInt("2")>>

L_add_member ==
    /\ IsGroup
    /\ \E uuid \in Uuids :
        Both("add_member", <<uuid, Path(TRUE, <<"data", "m1">>)>>,
             GroupFileHDF5_add_member(H, uuid, PyStr("Treant"),
                                      Path(TRUE, <<"data", "m1">>), Location),
             GroupFile_add_member(JGroup, uuid, PyStr("Treant"),
                                  Path(TRUE, <<"data", "m1">>), Location))

L_get_member ==
    /\ IsGroup
    /\ \E uuid \in Uuids :
        BothRead("get_member", <<uuid>>,
                 GroupFileHDF5_get_member(H, uuid),
                 GroupFile_get_member(JGroup, uuid))

L_add_universe ==
    /\ IsSim
    /\ \E universe \in Universes :
        Both("add_universe", <<universe, Path(TRUE, <<"data", "top">>), <<>>>>,
             SimFileHDF5_add_universe(H, universe, Path(TRUE, <<"data", "top">>),
                                      <<>>, Location),
             SimFile_add_universe(JSim, universe, Path(TRUE, <<"data", "top">>),
                                  <<>>, Location))

L_get_universe ==
    /\ IsSim
    /\ \E universe \in Universes :
        BothRead("get_universe", <<universe>>,
                 SimFileHDF5_get_universe(H, universe),
                 SimFile_get_universe(JSim, universe))

L_del_universe ==
    /\ IsSim
    /\ \E universe \in Universes :
        Both("del_universe", <<universe>>,
             SimFileHDF5_del_universe(H, universe),
             SimFile_del_universe(JSim, universe))

L_rename_universe ==
    /\ IsSim
    /\ \E universe \in Universes, newname \in Universes :
        /\ universe # newname
        /\ Both("rename_universe", <<universe, newname>>,
                SimFileHDF5_rename_universe(H, universe, newname),
                SimFile_rename_universe(JSim, universe, newname))

L_update_resnums ==
    /\ IsSim
    /\ \E universe \in Universes :
        Both("update_resnums", <<universe, ResnumsArg>>,
             SimFileHDF5_update_resnums(H, universe, ResnumsArg),
             SimFile_update_resnums(JSim, universe, PyList(ResnumsArg)))

L_get_resnums ==
    /\ IsSim
    /\ \E universe \in Universes :
        BothRead("get_resnums", <<universe>>,
                 SimFileHDF5_get_resnums(H, universe),
                 SimFile_get_resnums(JSim, universe))

NextLookup ==
    \/ L_add_member
    \/ L_get_member
    \/ L_add_universe
    \/ L_get_universe
    \/ L_del_universe
    \/ L_rename_universe
    \/ L_update_resnums
    \/ L_get_resnums

SpecLookup == InitLookup /\ [][NextLookup]_vars

\* what the get_ methods of the legacy file return: get_tags as a set,
\* get_categories, and get_member of every uuid
ViewHdf5(h) ==
    [tags |-> Range(h.tags),
     categories |->
        [k \in {h.categories[i].category : i \in DOMAIN h.categories} |->
            (CHOOSE r \in Range(h.categories) : r.category = k).value],
     members |->
        {<<r.uuid, r.treanttype, r.abspath, r.relCont>> : r \in Range(h.members)}]

\* what the get_ methods of the current file return
ViewJson(rec) ==
    [tags |-> Range(rec.tags),
     categories |-> rec.categories,
     members |-> Range(rec.members)]

(***************************************************************************)
(* Properties of the transactions.                                         *)
(***************************************************************************)

\* the process is inside a wrapped operation: its outermost call has been
\* granted its lock and has not left
Inside(p) == stack[p] # <<>> /\ stack[p][1].pc # "lock"

InsideWrite(p) == Inside(p) /\ ~IsRead(stack[p][1].op)

\* C1: while a process is inside a Write-wrapped operation it holds the
\* exclusive lock, and no other process is inside a Write- or Read-wrapped
\* operation on the record; a process inside a Read holds a lock.
C1_LockExclusion ==
    \A p \in Procs :
        /\ InsideWrite(p) =>
            /\ lock[p] = "exclusive"
            /\ \A q \in Procs \ {p} : ~Inside(q) /\ lock[q] = "none"
        /\ Inside(p) => lock[p] # "none"

\* a Write is in progress and another process's call waits for its lock
C1_Witness ==
    \E p, q \in Procs :
        /\ p # q
        /\ InsideWrite(p)
        /\ stack[q] # <<>>
        /\ stack[q][1].pc = "lock"

\* C2: whenever no Write is in progress, the record file holds what the
\* completed Writes amount to when applied one after the other in the order
\* in which they held the lock: no completed Write is lost.
C2_NoLostUpdate ==
    (\A p \in Procs : lock[p] # "exclusive") => AbsFile = committed

\* each process has made one call, and the file holds the tag added by the
\* one and the tag added by the other
C2_Witness ==
    /\ \A p \in Procs : nops[p] = 1 /\ stack[p] = <<>> /\ kwargs[p].tags = <<>>
    /\ AbsFile.tags = {TagA, TagB}

\* C7: a record file of the current format that exists has a schema version,
\* a tag collection and a category map.
C7_RecordComplete ==
    (backend = "json" /\ file.exists) =>
        {"version", "tags", "categories"} \subseteq Deserialize(file.data).keys

\* C3: once a top-level call has left, normally or with an exception, the
\* process holds no lock on the proxy file, fdlock is None and the lock file
\* descriptor is closed.
C3_LockReleased ==
    \A p \in Procs :
        stack[p] = <<>> =>
            /\ lock[p] = "none"
            /\ fdlock[p] = "None"
            /\ fd[p] = "None"
            /\ nfds[p] = 0

\* C5: in the current backend a top-level Write loads the record file once
\* and stores it once: the calls it makes neither load nor store.
C5_OneLoadOneStore ==
    backend = "json" =>
        \A p \in Procs :
            (stack[p] # <<>> /\ ~IsRead(stack[p][1].op)) =>
                /\ loads[p] <= 1
                /\ stores[p] <= 1
                /\ (Len(stack[p]) = 1 /\ Top(p).pc = "exit" /\ Top(p).exc = "") =>
                        (loads[p] = 1 /\ stores[p] = 1)

\* C6: a call made under a Write, and a Read made under a Read, takes and
\* releases no lock and leaves fdlock and fd as they are; the lock is taken
\* once and released once, by the outermost call when it leaves.
C6_Reentrant ==
    /\ [][\A p \in Procs :
            (Len(stack[p]) >= 2 \/ Len(stack'[p]) >= 2) =>
                /\ lock'[p] = lock[p]
                /\ fd'[p] = fd[p]
                /\ nfds'[p] = nfds[p]
                /\ fdlock'[p] = fdlock[p]
                /\ nacq'[p] = nacq[p]
                /\ nrel'[p] = nrel[p]]_vars
    /\ [](\A p \in Procs :
            /\ Inside(p) =>
                /\ nacq[p] = 1
                /\ nrel[p] = 0
                /\ lock[p] = LockMode(stack[p][1].op)
                /\ fdlock[p] = lock[p]
            /\ (stack[p] = <<>> /\ nacq[p] = 1) => (nrel[p] = 1 /\ lock[p] = "none"))

\* a Read called under a Write of the current backend has run and is about
\* to leave, with the exclusive lock of the Write still held
C6_Witness ==
    \E p \in Procs :
        /\ Len(stack[p]) = 2
        /\ Top(p).pc = "exit"
        /\ IsRead(Top(p).op)
        /\ fdlock[p] = "exclusive"
        /\ backend = "json"

(***************************************************************************)
(* Properties of the group record in the two backends.                     *)
(***************************************************************************)

\* the rows of the uuid in the legacy file / in the current file
HMembers(uuid) == {r \in Range(hfile.data.members) : r.uuid = uuid}
JMembers(uuid) == {m \in Range(Deserialize(jfile.data).members) : m[1] = uuid}

\* C8: after add_member of a uuid, each backend holds exactly one entry for
\* the uuid, and its absolute and relative paths are those of the basedir
\* given last.
C8_MemberUpsert ==
    last.name = "add_member" =>
        LET uuid == last.args[1]
            basedir == last.args[2]
        IN /\ HMembers(uuid) =
                {[uuid |-> uuid, treanttype |-> PyStr("Treant"),
                  abspath |-> AbsPath(basedir),
                  relCont |-> RelPath(basedir, Location)]}
           /\ JMembers(uuid) =
                {<<uuid, PyStr("Treant"), AbsPath(basedir),
                   RelPath(basedir, Location)>>}

\* C10: after every call the two backends return the same tags (as a set),
\* the same categories and the same members.
C10_BackendsAgree ==
    ViewHdf5(hfile.data) = ViewJson(Deserialize(jfile.data))

(***************************************************************************)
(* Properties of the simulation record in the two backends.                *)
(***************************************************************************)

\* C4: when the body of a top-level Write raises, the record in the file
\* after the call is the record in the file before the call, in both
\* backends.
C4_RaisePersistsNothing ==
    /\ last.hexc # "" => hfile = hprev
    /\ last.jexc # "" => jfile = jprev

\* the default universe of the legacy file is unset or names a universe
HDefaultPresent ==
    LET default == hfile.data.default
    IN \/ default = <<>>
       \/ default[1] = Str(PyNone)
       \/ default[1].v \in DOMAIN hfile.data.universes

\* the default universe of the current file is unset or names a universe
JDefaultPresent ==
    LET mds == Deserialize(jfile.data).mds
    IN \/ mds.default = PyNone
       \/ mds.default.v \in DOMAIN mds.universes

\* C9: after every add_universe, del_universe, rename_universe and
\* update_default the stored default universe is absent or is the name of a
\* universe of the record.
C9_DefaultPresent == HDefaultPresent /\ JDefaultPresent

(***************************************************************************)
(* Properties of tags, categories and members.                             *)
(***************************************************************************)

\* the stored tags of the two files, and those before the last call
HTags == hfile.data.tags
JTags == Deserialize(jfile.data).tags
HTagsBefore == hprev.data.tags
JTagsBefore == Deserialize(jprev.data).tags

\* how many entries of the list equal x
Count(list, x) == Cardinality({i \in DOMAIN list : list[i] = x})

\* no entry of the list occurs twice
NoDuplicate(list) == \A i, j \in DOMAIN list : list[i] = list[j] => i = j

\* C11: the stored tags never hold an entry twice; after add_tags every tag
\* given is stored exactly once, whether it was given twice in the call or
\* was there before; and add_tags of tags that are all there already leaves
\* the set of tags as it was.
C11_TagsUnique ==
    /\ NoDuplicate(HTags)
    /\ NoDuplicate(JTags)
    /\ last.name = "add_tags" =>
        LET tags == Range(last.args[1])
        IN /\ \A t \in tags : Count(HTags, Str(t)) = 1 /\ Count(JTags, t) = 1
           /\ {Str(t) : t \in tags} \subseteq Range(HTagsBefore) =>
                Range(HTags) = Range(HTagsBefore)
           /\ tags \subseteq Range(JTagsBefore) => Range(JTags) = Range(JTagsBefore)

\* a tag that is there already was added again, twice in the one call
C11_Witness ==
    /\ last.name = "add_tags"
    /\ last.args[1] = <<TagA, TagA>>
    /\ TagA \in Range(JTagsBefore)
    /\ TagA \in Range(HTagsBefore)

\* the stored categories of the two files, and those before the last call
HCategories == hfile.data.categories
JCategories == Deserialize(jfile.data).categories
HCategoriesBefore == hprev.data.categories
JCategoriesBefore == Deserialize(jprev.data).categories

\* the rows of the legacy table whose category is the key
RowsOfKey(rows, key) == {i \in DOMAIN rows : rows[i].category = key}

\* C12: no key has two entries; after add_categories every key given has
\* exactly one entry, holding the value given in this call, and every other
\* key is as it was before the call.
C12_CategoryOverwrite ==
    /\ \A i, j \in DOMAIN HCategories :
            HCategories[i].category = HCategories[j].category => i = j
    /\ last.name = "add_categories" =>
        LET categories == last.args[1]
        IN /\ \A key \in DOMAIN categories :
                /\ \E i \in DOMAIN HCategories :
                        /\ RowsOfKey(HCategories, key) = {i}
                        /\ HCategories[i].value = Str(categories[key])
                /\ key \in DOMAIN JCategories
                /\ Str(JCategories[key]) = Str(categories[key])
           /\ \A i \in DOMAIN HCategoriesBefore :
                HCategoriesBefore[i].category \notin DOMAIN categories =>
                    HCategories[i] = HCategoriesBefore[i]
           /\ \A key \in DOMAIN JCategoriesBefore \ DOMAIN categories :
                /\ key \in DOMAIN JCategories
                /\ JCategories[key] = JCategoriesBefore[key]
           /\ DOMAIN JCategories = DOMAIN JCategoriesBefore \cup DOMAIN categories

\* a key that had another value was given again, next to a key that was not
C12_Witness ==
    /\ last.name = "add_categories"
    /\ last.args[1] = [k \in {"k"} |-> PyStr("w")]
    /\ "k" \in DOMAIN JCategoriesBefore
    /\ JCategoriesBefore["k"] = PyStr("v")
    /\ "n" \in DOMAIN JCategoriesBefore
    /\ \E i \in DOMAIN HCategoriesBefore :
            HCategoriesBefore[i] = [category |-> "k", value |-> PyStr("v")]

\* C13: every category value stored is a string, and after add_categories
\* the value of every key given is str() of the value given, in both
\* backends.
C13_ValuesAreStrings ==
    /\ \A i \in DOMAIN HCategories : HCategories[i].value.ty = "str"
    /\ \A key \in DOMAIN JCategories : JCategories[key].ty = "str"
    /\ last.name = "add_categories" =>
        \A key \in DOMAIN last.args[1] :
            /\ \E i \in DOMAIN HCategories :
                    HCategories[i] = [category |-> key,
                                      value |-> Str(last.args[1][key])]
            /\ key \in DOMAIN JCategories
            /\ JCategories[key] = Str(last.args[1][key])

\* the uuids of the members of the two files in stored order, and those
\* before the last call
HUuids == [i \in DOMAIN hfile.data.members |-> hfile.data.members[i].uuid]
JUuids ==
    [i \in DOMAIN Deserialize(jfile.data).members |->
        Deserialize(jfile.data).members[i][1]]
HUuidsBefore == [i \in DOMAIN hprev.data.members |-> hprev.data.members[i].uuid]
JUuidsBefore ==
    [i \in DOMAIN Deserialize(jprev.data).members |->
        Deserialize(jprev.data).members[i][1]]

\* the list without the entries that are in the set, in the same order
RECURSIVE Without(_, _)
Without(list, S) ==
    IF list = <<>> THEN <<>>
    ELSE IF Head(list) \in S THEN Without(Tail(list), S)
    ELSE <<Head(list)>> \o Without(Tail(list), S)

\* the uuids after add_member: a uuid that is there stays where it is, a new
\* one goes to the end
AddedTo(uuids, uuid) ==
    IF uuid \in Range(uuids) THEN uuids ELSE Append(uuids, uuid)

\* the uuids after del_member
DeletedFrom(uuids, uuid, all) ==
    IF all THEN <<>> ELSE Without(uuids, {Str(u) : u \in Range(uuid)})

Keep(list, idx) == [k \in 1..Cardinality(idx) |-> list[SortedSeq(idx)[k]]]

\* the members of the two files, and those before the last call
HMemberRows == hfile.data.members
JMemberRows == Deserialize(jfile.data).members
HMemberRowsBefore == hprev.data.members
JMemberRowsBefore == Deserialize(jprev.data).members

\* C15: del_member removes the members whose uuid was given and leaves every
\* other member as it was and in the order it was in; the legacy del_tags and
\* del_categories do the same with the rows of their tables.
C15_DeleteExact ==
    /\ last.name = "del_member" =>
        LET uuids == Range(last.args[1])
        IN /\ HMemberRows = Keep(HMemberRowsBefore,
                {i \in DOMAIN HMemberRowsBefore :
                    HMemberRowsBefore[i].uuid \notin uuids})
           /\ JMemberRows = Keep(JMemberRowsBefore,
                {i \in DOMAIN JMemberRowsBefore :
                    JMemberRowsBefore[i][1] \notin uuids})
    /\ last.name = "del_tags" =>
        HTags = Keep(HTagsBefore,
            {i \in DOMAIN HTagsBefore : HTagsBefore[i] \notin Range(last.args[1])})
    /\ last.name = "del_categories" =>
        HCategories = Keep(HCategoriesBefore,
            {i \in DOMAIN HCategoriesBefore :
                HCategoriesBefore[i].category \notin Range(last.args[1])})

\* the second, fourth and sixth of six members were removed
C15_Witness ==
    /\ last.name = "del_member"
    /\ last.args[1] = <<NameOf(2), NameOf(4), NameOf(6)>>
    /\ Len(HMemberRowsBefore) = 6
    /\ Len(JMemberRowsBefore) = 6
    /\ HUuids = <<NameOf(1), NameOf(3), NameOf(5)>>
    /\ JUuids = <<NameOf(1), NameOf(3), NameOf(5)>>

(***************************************************************************)
(* Properties of the default universe and of the universes.                *)
(***************************************************************************)

HDefaultOf_row(f) == f.data.default[1]

\* what get_default returns from the legacy file: the row 'None' is None
HDefaultOf(f) ==
    IF f.data.default[1] = Str(PyNone) THEN PyNone ELSE f.data.default[1]

\* what get_default returns from the current file
JDefaultOf(f) == Deserialize(f.data).mds.default

\* C16: after an add_universe that returned, the default universe is the
\* universe added if no default was set before the call, and the default of
\* before the call otherwise, in both backends.
C16_FirstUniverseIsDefault ==
    /\ (last.name = "add_universe" /\ last.hexc = "") =>
        HDefaultOf(hfile) =
            IF HDefaultOf(hprev) = PyNone THEN PyStr(last.args[1])
            ELSE HDefaultOf(hprev)
    /\ (last.name = "add_universe" /\ last.jexc = "") =>
        JDefaultOf(jfile) =
            IF JDefaultOf(jprev) = PyNone THEN PyStr(last.args[1])
            ELSE JDefaultOf(jprev)

\* C17: after update_default with no universe, get_default returns None and
\* not the string 'None', in both backends.
C17_NoDefaultIsNone ==
    (last.name = "update_default" /\ last.args[1] = PyNone) =>
        /\ last.hexc = ""
        /\ last.jexc = ""
        /\ HDefaultOf(hfile) = PyNone
        /\ HDefaultOf(hfile) # PyStr("None")
        /\ JDefaultOf(jfile) = PyNone
        /\ JDefaultOf(jfile) # PyStr("None")

\* a default that was set was removed
C17_Witness ==
    /\ last.name = "update_default"
    /\ last.args[1] = PyNone
    /\ HDefaultOf(hprev) = PyStr("u")
    /\ JDefaultOf(jprev) = PyStr("u")

\* the names of the universes of the two files before the last call
HUniversesBefore == DOMAIN hprev.data.universes
JUniversesBefore == DOMAIN Deserialize(jprev.data).mds.universes

UniverseCalls ==
    {"get_universe", "del_universe", "rename_universe", "update_resnums",
     "get_resnums"}

\* C19: a call that names a universe or a member that is not in the record
\* raises to its caller, in both backends: it does not return a value and
\* does not return having done nothing.
C19_LookupFails ==
    /\ (last.name \in UniverseCalls /\ last.args[1] \notin HUniversesBefore) =>
        last.hexc # ""
    /\ (last.name \in UniverseCalls /\ last.args[1] \notin JUniversesBefore) =>
        last.jexc # ""
    /\ (last.name = "get_member" /\ last.args[1] \notin Range(HUuidsBefore)) =>
        last.hexc # ""
    /\ (last.name = "get_member" /\ last.args[1] \notin Range(JUuidsBefore)) =>
        last.jexc # ""

(***************************************************************************)
(* Properties of a record file that is not there.                          *)
(***************************************************************************)

\* C20: in the current backend a call on a record file that does not exist,
\* Read or Write, does not fail for the missing file: it reaches its body
\* with the record that _init_record gives.
C20_LazyCreation ==
    backend = "json" =>
        \A p \in Procs :
            /\ exc[p] # "IOError"
            /\ stack[p] # <<>> =>
                /\ Top(p).exc # "IOError"
                /\ (~file.exists /\ Len(stack[p]) = 1 /\ Top(p).pc = "body") =>
                        record[p] = TreantFile_init_record

(***************************************************************************)
(* Properties of the order of the steps of a transaction.                  *)
(***************************************************************************)

\* the call that entered first: the top-level call of process p
Outer(p) == stack[p][1]

\* process p gives its lock back in this step
Releases(p) == lock[p] # "none" /\ lock'[p] = "none"

\* what a Write that returned has put in the record file when the lock goes:
\* _push_record has run before the finally clause in the current backend, the
\* handle is closed ahead of _unlock inside the finally clause in the legacy
\* one
Persisted(p) ==
    IF backend = "json"
    THEN stores[p] >= 1 /\ file.exists /\ file.data = Serialize(record[p])
    ELSE ~handle'[p].open /\ file'.exists /\ file'.data = handle[p].data

LiveCall(p) ==
    /\ nops[p] < MaxLiveOps
    /\ \/ Call(p)
       \/ CallComposite(p)

NextLive ==
    \/ \E p \in Procs :
        \/ Construct(p)
        \/ CtorCall(p)
        \/ LiveCall(p)
        \/ Acquire(p)
        \/ OpenFile(p)
        \/ Pull(p)
        \/ RunBody(p)
        \/ CallNested(p)
        \/ Push(p)
        \/ Return(p)
    \/ ExternalDelete

\* a process that is inside a call takes its next step; a lock that can be
\* granted again and again is granted
Fairness(p) ==
    /\ SF_vars(Acquire(p))
    /\ WF_vars(OpenFile(p))
    /\ WF_vars(Pull(p))
    /\ WF_vars(RunBody(p))
    /\ WF_vars(CallNested(p))
    /\ WF_vars(Push(p))
    /\ WF_vars(Return(p))

SpecLive == Init /\ [][NextLive]_vars /\ \A p \in Procs : Fairness(p)

\* C22: under fair lock granting every top-level call of every process,
\* composite or not, gets its lock and returns: a process that is inside a
\* call is outside of it later on.
C22_Progress == \A p \in Procs : (stack[p] # <<>>) ~> (stack[p] = <<>>)

(***************************************************************************)
(* Properties of what a Read sees.                                         *)
(***************************************************************************)

\* what process p has loaded, as its users see it: self._record in the
\* current backend, the open file in the legacy one
Loaded(p) ==
    IF backend = "json" THEN AbsJson(record[p]) ELSE AbsHdf5(handle[p].data)

\* C23: a top-level Read that has loaded the record works on what the
\* completed Writes of all processes left in the file, whatever record or
\* handle the object kept from its earlier transactions.
C23_NoStaleCache ==
    \A p \in Procs :
        (/\ stack[p] # <<>>
         /\ IsRead(Outer(p).op)
         /\ Outer(p).pc \in {"body", "exit"}
         /\ Outer(p).exc = "") => Loaded(p) = committed

\* process p, whose object holds the record of its constructor, reads the
\* tags after process q's add_tags has completed
C23_Witness ==
    \E p, q \in Procs :
        /\ p # q
        /\ kwargs[p].tags = <<>> /\ kwargs[q].tags = <<>>
        /\ nops[q] = 1 /\ stack[q] = <<>>
        /\ Len(stack[p]) = 1
        /\ Top(p).op.name = "get_tags" /\ Top(p).pc = "exit"
        /\ nops[p] = 1
        /\ committed.tags = {TagB}

(***************************************************************************)
(* Properties of the shared lock.                                          *)
(***************************************************************************)

\* process p has called a Read and waits in _shlock
WaitsForShared(p) ==
    stack[p] # <<>> /\ Top(p).pc = "lock" /\ IsRead(Top(p).op)

\* C24: a Read waits for its lock only while another process holds the
\* exclusive lock: when none does, whatever shared locks are held, the
\* shared lock it asked for can be granted at once.
C24_ReadersShare ==
    \A p \in Procs :
        (WaitsForShared(p) /\ \A q \in Procs \ {p} : lock[q] # "exclusive")
            => ENABLED Acquire(p)

\* two processes are inside a Read at the same time, each with its record
\* loaded under its shared lock
C24_Witness ==
    \E p, q \in Procs :
        /\ p # q
        /\ Inside(p) /\ Inside(q)
        /\ IsRead(Outer(p).op) /\ IsRead(Outer(q).op)
        /\ Top(p).pc = "body" /\ Top(q).pc = "body"
        /\ lock[p] = "shared" /\ lock[q] = "shared"

(***************************************************************************)
(* Properties of the schema version: the constructors run on a path with   *)
(* no record file, or with the record file an earlier release left.        *)
(***************************************************************************)

\* the version an earlier release of the library stored
OldVersion == "0.5.0"

OldJson ==
    [TreantFile_init_record EXCEPT !.keys = @ \cup {"version"},
                                   !.version = OldVersion]

OldHdf5 ==
    [HEmpty EXCEPT !.nodes = {"version", "coordinator", "tags", "categories"},
                   !.version = <<OldVersion>>,
                   !.coordinator = <<Str(PyNone)>>]

OldFile ==
    [exists |-> TRUE,
     data |-> IF backend = "json" THEN Serialize(OldJson) ELSE OldHdf5]

InitVersion ==
    /\ NoObject
    /\ file \in {NoFile, OldFile}
    /\ committed = AbsFile

SpecVersion == InitVersion /\ [][Next]_vars

\* C25: once a constructor has completed the record file has a schema
\* version and get_version returns it, and no constructor changes a version
\* that is stored: create() writes back the version that update_schema found.
C25_VersionKept ==
    /\ [](\A p \in Procs :
            /\ ctor[p] = Done => AbsFile.version # <<>>
            /\ (/\ stack[p] # <<>>
                /\ Top(p).op.name = "get_version"
                /\ Top(p).pc = "exit") =>
                    (Top(p).exc = "" /\ Loaded(p).version # <<>>))
    /\ [][AbsFile.version # <<>> => AbsFile'.version = AbsFile.version]_vars

\* a second object has been constructed on the record file of an earlier
\* release, and a process has read the version
C25_Witness ==
    /\ \A p \in Procs : ctor[p] = Done
    /\ AbsFile.version = <<OldVersion>>
    /\ \E p \in Procs :
        /\ stack[p] # <<>>
        /\ Top(p).op.name = "get_version"
        /\ Top(p).pc = "exit"

(***************************************************************************)
(* Properties of the proxy file.                                           *)
(***************************************************************************)

\* File.__init__ of process p returns in this step
Constructed(p) == Construct(p) /\ ctor'[p] = 1

\* File.__init__ of process p raises in this step
ConstructFails(p) == Construct(p) /\ ctor'[p] = 0

\* C26: a File constructor that returns leaves the proxy file in place,
\* created by it or there already, and touches nothing else; one that meets
\* another error than "file exists" raises and creates nothing; the proxy
\* file is never removed, and a lock is only ever held through a descriptor
\* opened on it.
C26_ProxyCreated ==
    /\ [][\A p \in Procs :
            /\ Constructed(p) => (proxy' /\ file' = file /\ lock' = lock)
            /\ ConstructFails(p) =>
                    /\ exc'[p] = "OSError"
                    /\ ~proxy /\ ~proxy' /\ file' = file /\ lock' = lock
            /\ proxy => proxy']_vars
    /\ [](\A p \in Procs :
            /\ ctor[p] >= 1 => proxy
            /\ lock[p] # "none" => (proxy /\ fd[p] \in {"r", "rw"}))

\* the constructor of one process has failed on the directory, the other
\* process has created the proxy file since and holds a lock through it
C26_Witness ==
    \E p, q \in Procs :
        /\ ctor[p] = 0 /\ exc[p] = "OSError"
        /\ ctor[q] >= 1 /\ lock[q] = "exclusive" /\ fd[q] = "rw"
        /\ proxy

(***************************************************************************)
(* Properties of the stored paths: members are added to and deleted from a *)
(* group record, universes added to and renamed in a sim record, with      *)
(* absolute paths and paths relative to the working directory.             *)
(***************************************************************************)
P_add_member == IsGroup /\ G_add_member

P_del_member == IsGroup /\ G_del_member

P_add_universe == IsSim /\ S_add_universe

P_rename_universe == IsSim /\ S_rename_universe

NextPaths ==
    \/ P_add_member
    \/ P_del_member
    \/ P_add_universe
    \/ P_rename_universe

SpecPaths == InitLookup /\ [][NextPaths]_vars

\* the pairs (absolute path, relative path) a record of the current format
\* holds: of its members, of the topology and of the trajectory segments of
\* its universes
JPathPairs ==
    LET rec == Deserialize(jfile.data)
        universes == rec.mds.universes
    IN {<<m[3], m[4]>> : m \in Range(rec.members)}
       \cup {universes[u].top : u \in {x \in DOMAIN universes :
                                            "top" \in universes[x].keys}}
       \cup UNION {Range(universes[u].traj) : u \in DOMAIN universes}

\* the same of a legacy record
HPathPairs ==
    LET universes == hfile.data.universes
    IN {<<r.abspath, r.relCont>> : r \in Range(hfile.data.members)}
       \cup UNION {{<<r.abspath, r.relCont>> :
                        r \in Range(universes[u].topology)
                              \cup Range(universes[u].trajectory)} :
                   u \in DOMAIN universes}

\* C27: every relative path a record holds, of a member, of a topology or of
\* a trajectory segment, is the path from the directory of the record file
\* to the absolute path stored next to it, as the write that stored it
\* computed it; the path the caller gave is not stored as it is.
C27_RelPathComputed ==
    \A pair \in JPathPairs \cup HPathPairs :
        /\ pair[1].abs
        /\ ~pair[2].abs
        /\ pair[2] = RelPath(pair[1], Location)

\* a member was added with a basedir relative to the working directory; the
\* record holds the path to it from the directory of the record file
C27_Witness ==
    /\ last.name = "add_member"
    /\ last.args[2] = Path(FALSE, <<"m3">>)
    /\ <<Path(TRUE, <<"home", "m3">>), Path(FALSE, <<"..", "..", "home", "m3">>)>>
            \in JPathPairs \cap HPathPairs

(***************************************************************************)
(* The migration of a legacy group record: the target record is created by *)
(* its constructor, then filled through the methods of GroupFile, one      *)
(* transaction each, from what the get_ methods of the legacy file return. *)
(***************************************************************************)

\* what TreantFileHDF5.get_tags returns: the column of the table, in order
GetTags(h) == h.tags

\* what TreantFileHDF5.get_categories returns: a dict of the rows
GetCategories(h) ==
    [k \in {h.categories[i].category : i \in DOMAIN h.categories} |->
        (CHOOSE r \in Range(h.categories) : r.category = k).value]

GroupFileHDF5_get_members_uuid_reversed(h) ==
    [i \in DOMAIN h.members |-> h.members[Len(h.members) + 1 - i].uuid]

\* GroupFileHDF5.get_members_uuid: the uuid column of the table, in order
GroupFileHDF5_get_members_uuid(h) ==
    [i \in DOMAIN h.members |-> h.members[i].uuid]

\* one transaction on the target file: the records the body may leave, stored
Stored(f, results) == {SerialPush(f, res).file : res \in results}

\* step 4 of the migration: for every uuid of the legacy member list the row
\* is fetched with get_member and given to the target's add_member
RECURSIVE MigrateMembers(_, _, _)
MigrateMembers(f, h, uuids) ==
    IF uuids = <<>> THEN f
    ELSE LET info == RetOf(CHOOSE res \in
                        GroupFileHDF5_get_member(h, Head(uuids)) : TRUE).v
             next == CHOOSE g \in Stored(f,
                        GroupFile_add_member(SerialPull(f, GroupFile_init_record),
                            info.uuid, info.treanttype, info.abspath,
                            Location)) : TRUE
         IN MigrateMembers(next, h, Tail(uuids))

\* the migration of a group record: the files it may leave
MigrateGroup(h) ==
    LET tagged == Stored(GroupFile_new,
                    TreantFile_add_tags(
                        SerialPull(GroupFile_new, GroupFile_init_record),
                        GetTags(h)))
        filed == UNION {Stored(f,
                    TreantFile_add_categories(
                        SerialPull(f, GroupFile_init_record),
                        GetCategories(h))) : f \in tagged}
    IN {MigrateMembers(f, h, GroupFileHDF5_get_members_uuid(h)) : f \in filed}

\* the legacy file is migrated; jfile is the file the migration leaves
M_migrate ==
    /\ calls <= MaxCalls
    /\ \E target \in MigrateGroup(Hdf5Open(hfile)) : jfile' = target
    /\ last' = [NoCall EXCEPT !.name = "migrate"]
    /\ hprev' = hfile
    /\ jprev' = jfile
    /\ calls' = MaxCalls + 1
    /\ UNCHANGED hfile
    /\ UNCHANGED txvars

NextMigrate ==
    \/ G_add_tags
    \/ G_del_tags
    \/ G_add_categories
    \/ G_del_categories
    \/ G_add_member
    \/ G_del_member
    \/ M_migrate

SpecMigrate == InitGroup /\ [][NextMigrate]_vars

\* C28: the record the migration of a legacy group record leaves has the
\* tags of the legacy record as a set, its categories as a map, and its
\* members in the order of the legacy table, each with the legacy uuid, kind
\* and absolute path and with the relative path from the directory of the
\* record to that absolute path.
C28_MigrateGroup ==
    last.name = "migrate" =>
        /\ Range(JTags) = Range(HTags)
        /\ NoDuplicate(JTags)
        /\ JCategories = GetCategories(hfile.data)
        /\ JUuids = HUuids
        /\ \A i \in DOMAIN HMemberRows :
                JMemberRows[i] =
                    <<HMemberRows[i].uuid, HMemberRows[i].treanttype,
                      HMemberRows[i].abspath,
                      RelPath(HMemberRows[i].abspath, Location)>>

\* a legacy record with two members, the second uuid stored first, has been
\* migrated
C28_Witness ==
    /\ last.name = "migrate"
    /\ HUuids = <<PyStr("uuid-2"), PyStr("uuid-1")>>
    /\ Len(JMemberRows) = 2

(***************************************************************************)
(* The migration of a batch of legacy files. A file name is the list of    *)
(* its segments between dots, a segment its text and its length.           *)
(***************************************************************************)
Seg(text, len) == [text |-> text, len |-> len]

\* the length a uuid segment must have
UuidLength == 36

\* the kinds of record
Kinds == {"Treant", "Group", "Sim"}

\* Group.<uuid>.h5 and Sim.<uuid>.h5 with uuids of 36 characters, Foo.123.h5,
\* Group.short-uuid.h5, Group.<uuid>.txt and Group.h5
FileNames ==
    {<<Seg("Group", 5), Seg("uuid-1", UuidLength), Seg("h5", 2)>>,
     <<Seg("Sim", 3), Seg("uuid-2", UuidLength), Seg("h5", 2)>>,
     <<Seg("Foo", 3), Seg("123", 3), Seg("h5", 2)>>,
     <<Seg("Group", 5), Seg("short-uuid", 10), Seg("h5", 2)>>,
     <<Seg("Group", 5), Seg("uuid-3", UuidLength), Seg("txt", 3)>>,
     <<Seg("Group", 5), Seg("h5", 2)>>}

Valid_kind(name) ==
    /\ Len(name) = 3
    /\ name[1].text \in Kinds
    /\ name[3].text = "h5"

\* step 1 of the migration: {kind}.{uuid}.{ext} with a recognized kind, the
\* legacy extension and a uuid of exactly 36 characters
Valid(name) ==
    /\ Len(name) = 3
    /\ name[1].text \in Kinds
    /\ name[3].text = "h5"
    /\ name[2].len = UuidLength

\* the record file the migration of a legacy file writes: {kind}.{uuid}.json
OutputName(name) == <<name[1], name[2], Seg("json", 4)>>

InitBatch ==
    /\ \E n \in 1..MaxBatch :
        \E inputs \in [1..n -> FileNames] :
            batch = [NoBatch EXCEPT !.inputs = inputs]
    /\ hfile = NoFile
    /\ jfile = NoFile
    /\ hprev = NoFile
    /\ jprev = NoFile
    /\ last = NoCall
    /\ calls = 0
    /\ backend = "json"
    /\ file = NoFile
    /\ proxy = TRUE
    /\ lock = [p \in Procs |-> "none"]
    /\ fd = [p \in Procs |-> "None"]
    /\ nfds = [p \in Procs |-> 0]
    /\ fdlock = [p \in Procs |-> "None"]
    /\ handle = [p \in Procs |-> NoHandle]
    /\ record = [p \in Procs |-> JUnset]
    /\ stack = [p \in Procs |-> <<>>]
    /\ ctor = [p \in Procs |-> 0]
    /\ kwargs = [p \in Procs |-> [tags |-> <<>>, categories |-> NoDict]]
    /\ ret = [p \in Procs |-> ""]
    /\ exc = [p \in Procs |-> ""]
    /\ nops = [p \in Procs |-> 0]
    /\ loads = [p \in Procs |-> 0]
    /\ stores = [p \in Procs |-> 0]
    /\ nacq = [p \in Procs |-> 0]
    /\ nrel = [p \in Procs |-> 0]
    /\ committed = AbsEmpty
    /\ ndel = 0

\* the driver takes the next file of the batch: a name that is not valid is
\* skipped; the migration of a valid one creates the target file, then
\* succeeds or fails, and the failure is caught at the driver's boundary
M_next ==
    /\ batch.done < Len(batch.inputs)
    /\ LET name == batch.inputs[batch.done + 1]
       IN IF ~Valid(name)
          THEN batch' = [batch EXCEPT !.done = @ + 1,
                                      !.report = Append(@, "skipped")]
          ELSE \E outcome \in {"succeeded", "failed"} :
                batch' = [batch EXCEPT !.done = @ + 1,
                                       !.outputs = @ \cup {OutputName(name)},
                                       !.report = Append(@, outcome)]
    /\ UNCHANGED <<hfile, jfile, hprev, jprev, last, calls>>
    /\ UNCHANGED <<backend, file, proxy, lock, fd, nfds, fdlock, handle, record,
                   stack, ctor, kwargs, ret, exc, nops, loads, stores, nacq, nrel,
                   committed, ndel>>

NextBatch == M_next

SpecBatch == InitBatch /\ [][NextBatch]_vars

\* the files of the batch taken so far whose name has a kind that is not
\* recognized or a uuid segment that is not 36 characters long
Rejected ==
    {i \in 1..batch.done :
        /\ Len(batch.inputs[i]) = 3
        /\ \/ batch.inputs[i][1].text \notin Kinds
           \/ batch.inputs[i][2].len # 36}

\* C29: a file whose name has an unrecognized kind, or a uuid segment that is
\* not 36 characters long, is reported as skipped, no record file is written
\* for it, and the run goes on: the files after it are taken, whatever their
\* outcome.
C29_InvalidSkipped ==
    /\ Len(batch.report) = batch.done
    /\ \A i \in Rejected :
        /\ batch.report[i] = "skipped"
        /\ \A out \in batch.outputs :
                ~(out[1] = batch.inputs[i][1] /\ out[2] = batch.inputs[i][2])
    /\ \A i \in 1..batch.done :
        batch.report[i] # "skipped" => OutputName(batch.inputs[i]) \in batch.outputs
    /\ batch.done < Len(batch.inputs) => ENABLED M_next

\* Foo.123.h5 and Group.short-uuid.h5 were skipped, and the valid file after
\* them has been migrated
C29_Witness ==
    /\ batch.done = 3
    /\ batch.inputs[1][1].text = "Foo"
    /\ batch.inputs[2][2].text = "short-uuid"
    /\ batch.report = <<"skipped", "skipped", "succeeded">>
    /\ Cardinality(batch.outputs) = 1

(***************************************************************************)
(* A method under _read that calls a method under _write on the same       *)
(* object, in the current backend.                                         *)
(***************************************************************************)
Upgrades ==
    {Op("read_composite", <<>>, NoDict, FALSE, "", sub) :
        sub \in {<<add_tags(<<TagB>>)>>,
                 <<add_tags(<<TagB>>), Simple("get_tags")>>}}

\* a call of such a method on a constructed object
CallUpgrade(p) ==
    /\ ctor[p] = Done
    /\ nops[p] < MaxOps
    /\ \E op \in Upgrades : EnterTop(p, op)
    /\ nops' = [nops EXCEPT ![p] = @ + 1]

\* two processes that hold the shared lock wait for the exclusive one: the
\* system refuses one of the two requests (EDEADLK), _exlock raises and
\* inner() is left ahead of its try block, with the descriptor open
Edeadlk(p) ==
    /\ Len(stack[p]) >= 2
    /\ Top(p).pc = "lock"
    /\ lock[p] # "none"
    /\ \E q \in Procs \ {p} :
        /\ stack[q] # <<>>
        /\ Top(q).pc = "lock"
        /\ lock[q] # "none"
        /\ ~Grantable(p, LockMode(Top(p).op))
        /\ ~Grantable(q, LockMode(Top(q).op))
    /\ LET rest == SubSeq(stack[p], 1, Len(stack[p]) - 1)
       IN stack' = [stack EXCEPT ![p] =
                        [rest EXCEPT ![Len(rest)] = Resume(@, "IOError")]]
    /\ UNCHANGED <<seqvars, backend, file, proxy, lock, fd, nfds, fdlock, handle,
                   record, ctor, kwargs, ret, exc, nops, loads, stores, nacq,
                   nrel, committed, ndel>>

NextUpgrade ==
    \E p \in Procs :
        \/ Construct(p)
        \/ CtorCall(p)
        \/ Call(p)
        \/ CallUpgrade(p)
        \/ Acquire(p)
        \/ Edeadlk(p)
        \/ Pull(p)
        \/ RunBody(p)
        \/ CallNested(p)
        \/ Push(p)
        \/ Return(p)

\* the current backend
InitUpgrade == Init /\ backend = "json"

SpecUpgrade == InitUpgrade /\ [][NextUpgrade]_vars

\* C30: a Read whose body has called a Write on the same object keeps a
\* lock on the proxy file and an open lock descriptor until it leaves, and
\* it leaves without an exception of the wrapper, with no lock, fdlock None
\* and fd None.
C30_ReadKeepsLock ==
    \A p \in Procs :
        /\ (Inside(p) /\ IsRead(Outer(p).op)) =>
                (lock[p] # "none" /\ fd[p] # "None" /\ fdlock[p] # "None")
        /\ stack[p] = <<>> =>
                /\ exc[p] # "TypeError"
                /\ lock[p] = "none"
                /\ fdlock[p] = "None"
                /\ fd[p] = "None"

(***************************************************************************)
(* Selections and resnums of a universe.                                   *)
(***************************************************************************)

\* a numpy array of atom indices
NdArray(s) == [ty |-> "ndarray", v |-> s]

\* SimFile.add_selection: the loop keeps the strings, keeps the arrays as
\* lists, and passes over anything else
RECURSIVE OutSel(_)
OutSel(selection) ==
    IF selection = <<>> THEN <<>>
    ELSE (IF Head(selection).ty = "ndarray" THEN <<PyList(Head(selection).v)>>
          ELSE IF Head(selection).ty = "str" THEN <<Head(selection)>>
          ELSE <<>>) \o OutSel(Tail(selection))

SimFile_add_selection_merge(rec, universe, selname, selection) ==
    IF \/ universe \notin DOMAIN rec.mds.universes
       \/ "sels" \notin rec.mds.universes[universe].keys
    THEN {Raise(rec, "KeyError")}
    ELSE LET sels == rec.mds.universes[universe].sels
             old == IF selname \in DOMAIN sels THEN sels[selname] ELSE <<>>
         IN {Ret([rec EXCEPT !.mds.universes[universe].sels =
                    DictSet(@, selname, old \o OutSel(selection))])}

\* SimFile.add_selection
SimFile_add_selection(rec, universe, selname, selection) ==
    IF \/ universe \notin DOMAIN rec.mds.universes
       \/ "sels" \notin rec.mds.universes[universe].keys
    THEN {Raise(rec, "KeyError")}
    ELSE {Ret([rec EXCEPT !.mds.universes[universe].sels =
                DictSet(@, selname, OutSel(selection))])}

\* SimFile.get_selection
SimFile_get_selection(rec, universe, selname) ==
    IF \/ universe \notin DOMAIN rec.mds.universes
       \/ "sels" \notin rec.mds.universes[universe].keys
       \/ selname \notin DOMAIN rec.mds.universes[universe].sels
    THEN {Raise(rec, "KeyError")}
    ELSE {Returns(rec, PyList(rec.mds.universes[universe].sels[selname]))}

\* SimFile.list_selections: the keys of the dict, in no order
SimFile_list_selections(rec, universe) ==
    IF \/ universe \notin DOMAIN rec.mds.universes
       \/ "sels" \notin rec.mds.universes[universe].keys
    THEN {Raise(rec, "KeyError")}
    ELSE {Returns(rec, PyList(DOMAIN rec.mds.universes[universe].sels))}

\* SimFile.del_resnums
SimFile_del_resnums(rec, universe) ==
    IF universe \notin DOMAIN rec.mds.universes THEN {Raise(rec, "KeyError")}
    ELSE {Ret([rec EXCEPT !.mds.universes[universe].resnums = PyNone])}

\* the array create_array stores: the elements of the first argument when
\* it is a numpy array, the tuple of arguments otherwise
ArrayOf(selection) ==
    IF selection[1].ty = "ndarray"
    THEN [i \in DOMAIN selection[1].v |-> PyInt(selection[1].v[i])]
    ELSE selection

\* SimFileHDF5.add_selection: selection[0] of no arguments raises; a missing
\* selections group raises NoSuchNodeError, a NodeError, from remove_node;
\* an array that is there is removed and created again
SimFileHDF5_add_selection(h, universe, selname, selection) ==
    IF selection = <<>> THEN {Raise(h, "IndexError")}
    ELSE IF \/ universe \notin DOMAIN h.universes
            \/ "selections" \notin h.universes[universe].nodes
    THEN {Raise(h, "NoSuchNodeError")}
    ELSE IF \E i \in DOMAIN ArrayOf(selection) : ArrayOf(selection)[i].ty = "ndarray"
    THEN {Raise(h, "ValueError")}
    ELSE {Ret([h EXCEPT !.universes[universe].selections =
                DictSet(@, selname, ArrayOf(selection))])}

\* SimFileHDF5.get_selection
SimFileHDF5_get_selection(h, universe, selname) ==
    IF \/ universe \notin DOMAIN h.universes
       \/ "selections" \notin h.universes[universe].nodes
       \/ selname \notin DOMAIN h.universes[universe].selections
    THEN {Raise(h, "KeyError")}
    ELSE {Returns(h, PyList(h.universes[universe].selections[selname]))}

\* SimFileHDF5.list_selections: group.__members__
SimFileHDF5_list_selections(h, universe) ==
    IF \/ universe \notin DOMAIN h.universes
       \/ "selections" \notin h.universes[universe].nodes
    THEN {Raise(h, "KeyError")}
    ELSE {Returns(h, PyList(DOMAIN h.universes[universe].selections))}

\* SimFileHDF5.del_resnums: remove_node raises when the table is not there
SimFileHDF5_del_resnums(h, universe) ==
    IF \/ universe \notin DOMAIN h.universes
       \/ "resnums" \notin h.universes[universe].nodes
    THEN {Raise(h, "NoSuchNodeError")}
    ELSE {Ret([h EXCEPT !.universes[universe].nodes = @ \ {"resnums"},
                        !.universes[universe].resnums = <<>>])}

(***************************************************************************)
(* Calls on the universes of a simulation record, on a legacy file and a   *)
(* current file side by side. The record is new, or holds universe 'u'     *)
(* with a selection and resnums and universe 'w' with a selection.         *)
(***************************************************************************)
TopA == Path(TRUE, <<"data", "top">>)
TopB == Path(FALSE, <<"top">>)
TrajA == Path(TRUE, <<"data", "traj">>)
TrajB == Path(FALSE, <<"traj">>)
SelA == PyStr("protein")
SelB == PyStr("name CA")
ResnumsA == <<PyInt("1"), PyInt("2")>>
ResnumsB == <<PyInt("2"), PyInt("1")>>

\* SimFileHDF5(filename), then add_universe, add_selection, update_resnums
\* for universe 'u' and add_universe, add_selection for universe 'w'
SimFileHDF5_held ==
    LET h1 == Only(SimFileHDF5_add_universe(SimFileHDF5_new.data, "u", TopA,
                                            <<TrajA>>, Location))
        h2 == Only(SimFileHDF5_add_selection(h1, "u", "h", <<SelA, SelB>>))
        h3 == Only(SimFileHDF5_update_resnums(h2, "u", ResnumsA))
        h4 == Only(SimFileHDF5_add_universe(h3, "w", TopB, <<>>, Location))
    IN [exists |-> TRUE, data |-> Only(SimFileHDF5_add_selection(h4, "w", "g", <<SelB>>))]

\* SimFile(filename), then the same calls
SimFile_held ==
    LET r1 == Only(SimFile_add_universe(Deserialize(SimFile_new.data), "u", TopA,
                                        <<TrajA>>, Location))
        r2 == Only(SimFile_add_selection(r1, "u", "h", <<SelA, SelB>>))
        r3 == Only(SimFile_update_resnums(r2, "u", PyList(ResnumsA)))
        r4 == Only(SimFile_add_universe(r3, "w", TopB, <<>>, Location))
    IN [exists |-> TRUE,
        data |-> Serialize(Only(SimFile_add_selection(r4, "w", "g", <<SelB>>)))]

InitUniverse ==
    /\ \/ hfile = SimFileHDF5_new /\ jfile = SimFile_new
       \/ hfile = SimFileHDF5_held /\ jfile = SimFile_held
    /\ hprev = hfile
    /\ jprev = jfile
    /\ last = NoCall
    /\ calls = 0
    /\ TxIdle

\* the arguments of the calls
TopologyArgs == {TopA, TopB}
TrajectoryArgs == {<<>>, <<TrajA, TrajB>>, <<TrajB, TrajA>>}
DefaultArgs == {PyNone, PyStr("u"), PyStr("None")}
Handles == {"h", "g"}
SelectionArgs == {<<SelA>>, <<SelA, SelB>>, <<SelB, SelA>>, <<NdArray(<<"3", "1">>)>>}
ResnumsArgs == {ResnumsA, ResnumsB}
NewNames == Universes \cup {"v"}

U_add_universe ==
    \E universe \in Universes, topology \in TopologyArgs,
       trajectory \in TrajectoryArgs :
        Both("add_universe", <<universe, topology, trajectory>>,
             SimFileHDF5_add_universe(H, universe, topology, trajectory, Location),
             SimFile_add_universe(JSim, universe, topology, trajectory, Location))

U_del_universe ==
    \E universe \in Universes :
        Both("del_universe", <<universe>>,
             SimFileHDF5_del_universe(H, universe),
             SimFile_del_universe(JSim, universe))

U_rename_universe ==
    \E universe \in NewNames, newname \in NewNames :
        Both("rename_universe", <<universe, newname>>,
             SimFileHDF5_rename_universe(H, universe, newname),
             SimFile_rename_universe(JSim, universe, newname))

U_update_default ==
    \E universe \in DefaultArgs :
        Both("update_default", <<universe>>,
             SimFileHDF5_update_default(H, universe),
             SimFile_update_default(JSim, universe))

U_add_selection ==
    \E universe \in Universes, selname \in Handles, selection \in SelectionArgs :
        Both("add_selection", <<universe, selname, selection>>,
             SimFileHDF5_add_selection(H, universe, selname, selection),
             SimFile_add_selection(JSim, universe, selname, selection))

U_update_resnums ==
    \E universe \in Universes, resnums \in ResnumsArgs :
        Both("update_resnums", <<universe, resnums>>,
             SimFileHDF5_update_resnums(H, universe, resnums),
             SimFile_update_resnums(JSim, universe, PyList(resnums)))

U_del_resnums ==
    \E universe \in Universes :
        Both("del_resnums", <<universe>>,
             SimFileHDF5_del_resnums(H, universe),
             SimFile_del_resnums(JSim, universe))

NextUniverse ==
    \/ U_add_universe
    \/ U_del_universe
    \/ U_rename_universe
    \/ U_update_default
    \/ U_add_selection
    \/ U_update_resnums
    \/ U_del_resnums

SpecUniverse == InitUniverse /\ [][NextUniverse]_vars

\* what a Read returns, or the exception it raises, on a file as it is
Answer(res) ==
    LET r == CHOOSE x \in res : TRUE
    IN IF r.exc # "" THEN [exc |-> r.exc] ELSE [ret |-> RetOf(r)]

\* the answers of the Reads of the legacy file f
HGetDefault(f) == Answer({Returns(f.data, HDefaultOf(f))})
HGetUniverse(f, u) == Answer(SimFileHDF5_get_universe(Hdf5Open(f), u))
HGetSelection(f, u, s) == Answer(SimFileHDF5_get_selection(Hdf5Open(f), u, s))
HListSelections(f, u) == Answer(SimFileHDF5_list_selections(Hdf5Open(f), u))
HGetResnums(f, u) == Answer(SimFileHDF5_get_resnums(Hdf5Open(f), u))

\* the answers of the Reads of the current file f
JGetDefault(f) == Answer({Returns(f.data, JDefaultOf(f))})
JGetUniverse(f, u) == Answer(SimFile_get_universe(Deserialize(f.data), u))
JGetSelection(f, u, s) == Answer(SimFile_get_selection(Deserialize(f.data), u, s))
JListSelections(f, u) == Answer(SimFile_list_selections(Deserialize(f.data), u))
JGetResnums(f, u) == Answer(SimFile_get_resnums(Deserialize(f.data), u))

\* the universes of a file
HUniverses(f) == DOMAIN f.data.universes
JUniverses(f) == DOMAIN Deserialize(f.data).mds.universes

\* C31: get_default never returns the string 'None': a stored default that
\* is the string 'None' is returned as None, in both backends.
C31_NoneStringIsNone ==
    /\ HGetDefault(hfile) # [ret |-> PyStr("None")]
    /\ JGetDefault(jfile) # [ret |-> PyStr("None")]

\* the part of C31 that holds: the legacy get_default returns None for the
\* stored string 'None'
C31_LegacyNoneStringIsNone ==
    hfile.data.default = <<PyStr("None")>> => HGetDefault(hfile) = [ret |-> PyNone]

\* the pairs of paths add_universe is to store for a topology and for the
\* segments of a trajectory, in the order given
TopPair(topology) == <<AbsPath(topology), RelPath(topology, Location)>>
TrajPairs(trajectory) ==
    [i \in DOMAIN trajectory |->
        <<AbsPath(trajectory[i]), RelPath(trajectory[i], Location)>>]

\* the same pairs as the rows of the legacy tables
TopRows(topology) ==
    <<[abspath |-> TopPair(topology)[1], relCont |-> TopPair(topology)[2]]>>
TrajRows(trajectory) ==
    [i \in DOMAIN trajectory |->
        [abspath |-> TrajPairs(trajectory)[i][1],
         relCont |-> TrajPairs(trajectory)[i][2]]]

\* the selections and the resnums of universe u are the same in f and g
HSameSelections(f, g, u) ==
    /\ HListSelections(f, u) = HListSelections(g, u)
    /\ \A s \in Handles : HGetSelection(f, u, s) = HGetSelection(g, u, s)
JSameSelections(f, g, u) ==
    /\ JListSelections(f, u) = JListSelections(g, u)
    /\ \A s \in Handles : JGetSelection(f, u, s) = JGetSelection(g, u, s)

\* every universe but those of the set is in g what it is in f
HOthersKept(f, g, except) ==
    \A w \in NewNames \ except :
        /\ w \in HUniverses(f) <=> w \in HUniverses(g)
        /\ w \in HUniverses(f) => f.data.universes[w] = g.data.universes[w]
JOthersKept(f, g, except) ==
    \A w \in NewNames \ except :
        /\ w \in JUniverses(f) <=> w \in JUniverses(g)
        /\ w \in JUniverses(f) =>
            Deserialize(f.data).mds.universes[w] = Deserialize(g.data).mds.universes[w]

\* C32: add_universe with the name of a universe that is there replaces its
\* topology and its whole trajectory with the paths given, the segments in
\* the order given, and leaves its selections, its resnums and every other
\* universe as they were, in both backends.
C32_ReAddKeepsSelections ==
    LET u == last.args[1]
    IN /\ (last.name = "add_universe" /\ last.hexc = "" /\ u \in HUniverses(hprev)) =>
            /\ HGetUniverse(hfile, u) =
                [ret |-> PyList(<<TopRows(last.args[2]), TrajRows(last.args[3])>>)]
            /\ HSameSelections(hprev, hfile, u)
            /\ HGetResnums(hfile, u) = HGetResnums(hprev, u)
            /\ HOthersKept(hprev, hfile, {u})
       /\ (last.name = "add_universe" /\ last.jexc = "" /\ u \in JUniverses(jprev)) =>
            /\ JGetUniverse(jfile, u) =
                [ret |-> PyList(<<TopPair(last.args[2]), TrajPairs(last.args[3])>>)]
            /\ JSameSelections(jprev, jfile, u)
            /\ JGetResnums(jfile, u) = JGetResnums(jprev, u)
            /\ JOthersKept(jprev, jfile, {u})

\* universe 'u', which has a selection and resnums, was added again with
\* another topology and a longer trajectory, next to universe 'w'
C32_Witness ==
    /\ last.name = "add_universe"
    /\ last.args = <<"u", TopB, <<TrajB, TrajA>>>>
    /\ last.hexc = ""
    /\ last.jexc = ""
    /\ JGetUniverse(jprev, "u") = [ret |-> PyList(<<TopPair(TopA), TrajPairs(<<TrajA>>)>>)]
    /\ HGetUniverse(hprev, "u") = [ret |-> PyList(<<TopRows(TopA), TrajRows(<<TrajA>>)>>)]
    /\ JGetSelection(jfile, "u", "h") = [ret |-> PyList(<<SelA, SelB>>)]
    /\ HGetSelection(hfile, "u", "h") = [ret |-> PyList(<<SelA, SelB>>)]
    /\ JGetResnums(jfile, "u") = [ret |-> PyList(ResnumsA)]
    /\ HGetResnums(hfile, "u") = [ret |-> PyList(ResnumsA)]
    /\ "w" \in JUniverses(jfile) \cap HUniverses(hfile)

\* C33: del_universe(u) removes the universe with its selections and its
\* resnums and leaves every other universe as it was; a universe added under
\* a name that is not there, as after del_universe, has no selections and no
\* resnums, in both backends.
C33_DeleteTakesAll ==
    LET u == last.args[1]
    IN /\ (last.name = "del_universe" /\ last.hexc = "") =>
            /\ u \notin HUniverses(hfile)
            /\ HListSelections(hfile, u) = [exc |-> "KeyError"]
            /\ HGetResnums(hfile, u) = [ret |-> PyNone]
            /\ HOthersKept(hprev, hfile, {u})
       /\ (last.name = "del_universe" /\ last.jexc = "") =>
            /\ u \notin JUniverses(jfile)
            /\ JListSelections(jfile, u) = [exc |-> "KeyError"]
            /\ JOthersKept(jprev, jfile, {u})
       /\ (last.name = "add_universe" /\ last.hexc = "" /\ u \notin HUniverses(hprev)) =>
            /\ HListSelections(hfile, u) = [ret |-> PyList({})]
            /\ \A s \in Handles : HGetSelection(hfile, u, s) = [exc |-> "KeyError"]
            /\ HGetResnums(hfile, u) = [ret |-> PyNone]
            /\ HOthersKept(hprev, hfile, {u})
       /\ (last.name = "add_universe" /\ last.jexc = "" /\ u \notin JUniverses(jprev)) =>
            /\ JListSelections(jfile, u) = [ret |-> PyList({})]
            /\ \A s \in Handles : JGetSelection(jfile, u, s) = [exc |-> "KeyError"]
            /\ JGetResnums(jfile, u) = [ret |-> PyNone]
            /\ JOthersKept(jprev, jfile, {u})

\* universe 'u' was added after the del_universe that removed it together
\* with its selection and its resnums; universe 'w' kept its selection
C33_Witness ==
    /\ calls = 2
    /\ last.name = "add_universe"
    /\ last.args[1] = "u"
    /\ last.hexc = ""
    /\ last.jexc = ""
    /\ "u" \notin HUniverses(hprev) \cup JUniverses(jprev)
    /\ HGetSelection(hfile, "w", "g") = [ret |-> PyList(<<SelB>>)]
    /\ JGetSelection(jfile, "w", "g") = [ret |-> PyList(<<SelB>>)]

\* universe n of file g answers every Read as universe u of file f did
HSameAnswers(f, u, g, n) ==
    /\ HGetUniverse(g, n) = HGetUniverse(f, u)
    /\ HListSelections(g, n) = HListSelections(f, u)
    /\ \A s \in Handles : HGetSelection(g, n, s) = HGetSelection(f, u, s)
    /\ HGetResnums(g, n) = HGetResnums(f, u)
JSameAnswers(f, u, g, n) ==
    /\ JGetUniverse(g, n) = JGetUniverse(f, u)
    /\ JListSelections(g, n) = JListSelections(f, u)
    /\ \A s \in Handles : JGetSelection(g, n, s) = JGetSelection(f, u, s)
    /\ JGetResnums(g, n) = JGetResnums(f, u)

\* rename_universe(u, n) of a universe that is there to a name that is not
\* returns, and leaves under n what u had, no universe u, as many universes
\* as before and the others as they were
HRenamed ==
    LET u == last.args[1]
        n == last.args[2]
    IN /\ (u \in HUniverses(hprev) /\ n \notin HUniverses(hprev)) => last.hexc = ""
       /\ last.hexc = "" =>
            /\ u \in HUniverses(hprev) /\ n \notin HUniverses(hprev)
            /\ n \in HUniverses(hfile) /\ u \notin HUniverses(hfile)
            /\ HSameAnswers(hprev, u, hfile, n)
            /\ Cardinality(HUniverses(hfile)) = Cardinality(HUniverses(hprev))
            /\ HOthersKept(hprev, hfile, {u, n})
JRenamed ==
    LET u == last.args[1]
        n == last.args[2]
    IN /\ (u \in JUniverses(jprev) /\ n \notin JUniverses(jprev)) => last.jexc = ""
       /\ last.jexc = "" =>
            /\ u \in JUniverses(jprev) /\ n \notin JUniverses(jprev)
            /\ n \in JUniverses(jfile) /\ u \notin JUniverses(jfile)
            /\ JSameAnswers(jprev, u, jfile, n)
            /\ Cardinality(JUniverses(jfile)) = Cardinality(JUniverses(jprev))
            /\ JOthersKept(jprev, jfile, {u, n})

AllStrings(selection) == \A i \in DOMAIN selection : selection[i].ty = "str"

\* the handles of universe u in a file that has it
HHandles(f, u) == DOMAIN f.data.universes[u].selections
JHandles(f, u) == DOMAIN Deserialize(f.data).mds.universes[u].sels

\* C35: after add_selection(u, h, s1, ..., sn) of selection strings on a
\* universe that is there, get_selection(u, h) returns s1, ..., sn in that
\* order; a selection that was under the handle is replaced, so the handle
\* has one selection; the selections under the other handles, the paths and
\* resnums of u, and the other universes are as before, in both backends.
C35_SelectionRoundTrip ==
    LET u == last.args[1]
        h == last.args[2]
        s == last.args[3]
    IN /\ (last.name = "add_selection" /\ AllStrings(s) /\ u \in HUniverses(hprev)) =>
            /\ last.hexc = ""
            /\ HGetSelection(hfile, u, h) = [ret |-> PyList(s)]
            /\ HHandles(hfile, u) = HHandles(hprev, u) \cup {h}
            /\ \A g \in Handles \ {h} :
                HGetSelection(hfile, u, g) = HGetSelection(hprev, u, g)
            /\ HGetUniverse(hfile, u) = HGetUniverse(hprev, u)
            /\ HGetResnums(hfile, u) = HGetResnums(hprev, u)
            /\ HOthersKept(hprev, hfile, {u})
       /\ (last.name = "add_selection" /\ AllStrings(s) /\ u \in JUniverses(jprev)) =>
            /\ last.jexc = ""
            /\ JGetSelection(jfile, u, h) = [ret |-> PyList(s)]
            /\ JHandles(jfile, u) = JHandles(jprev, u) \cup {h}
            /\ \A g \in Handles \ {h} :
                JGetSelection(jfile, u, g) = JGetSelection(jprev, u, g)
            /\ JGetUniverse(jfile, u) = JGetUniverse(jprev, u)
            /\ JGetResnums(jfile, u) = JGetResnums(jprev, u)
            /\ JOthersKept(jprev, jfile, {u})

\* the selection under handle 'h' of universe 'u' was replaced by the same
\* strings in the other order, next to a selection under handle 'g'
C35_Witness ==
    /\ last.name = "add_selection"
    /\ last.args = <<"u", "h", <<SelB, SelA>>>>
    /\ HGetSelection(hprev, "u", "h") = [ret |-> PyList(<<SelA, SelB>>)]
    /\ JGetSelection(jprev, "u", "h") = [ret |-> PyList(<<SelA, SelB>>)]
    /\ HGetSelection(hfile, "u", "h") = [ret |-> PyList(<<SelB, SelA>>)]
    /\ JGetSelection(jfile, "u", "h") = [ret |-> PyList(<<SelB, SelA>>)]
    /\ HGetSelection(hfile, "u", "g") = [ret |-> PyList(<<SelA>>)]
    /\ JGetSelection(jfile, "u", "g") = [ret |-> PyList(<<SelA>>)]

\* C36: after update_resnums(u, r) on a universe that is there,
\* get_resnums(u) returns r in the order given, whatever resnums u had
\* before; after del_resnums(u), get_resnums(u) returns None; a universe
\* just added under a name that was not there has resnums None. The
\* selections and paths of u and the other universes are as before, in both
\* backends.
C36_ResnumsRoundTrip ==
    LET u == last.args[1]
    IN /\ (last.name = "update_resnums" /\ u \in HUniverses(hprev)) =>
            /\ last.hexc = ""
            /\ HGetResnums(hfile, u) = [ret |-> PyList(last.args[2])]
            /\ HSameSelections(hprev, hfile, u)
            /\ HGetUniverse(hfile, u) = HGetUniverse(hprev, u)
            /\ HOthersKept(hprev, hfile, {u})
       /\ (last.name = "update_resnums" /\ u \in JUniverses(jprev)) =>
            /\ last.jexc = ""
            /\ JGetResnums(jfile, u) = [ret |-> PyList(last.args[2])]
            /\ JSameSelections(jprev, jfile, u)
            /\ JGetUniverse(jfile, u) = JGetUniverse(jprev, u)
            /\ JOthersKept(jprev, jfile, {u})
       /\ (last.name = "del_resnums" /\ u \in HUniverses(hprev)) =>
            /\ HGetResnums(hprev, u) # [ret |-> PyNone] => last.hexc = ""
            /\ HGetResnums(hfile, u) = [ret |-> PyNone]
            /\ HSameSelections(hprev, hfile, u)
            /\ HOthersKept(hprev, hfile, {u})
       /\ (last.name = "del_resnums" /\ u \in JUniverses(jprev)) =>
            /\ last.jexc = ""
            /\ JGetResnums(jfile, u) = [ret |-> PyNone]
            /\ JSameSelections(jprev, jfile, u)
            /\ JOthersKept(jprev, jfile, {u})
       /\ (last.name = "add_universe" /\ last.hexc = "" /\ u \notin HUniverses(hprev)) =>
            HGetResnums(hfile, u) = [ret |-> PyNone]
       /\ (last.name = "add_universe" /\ last.jexc = "" /\ u \notin JUniverses(jprev)) =>
            JGetResnums(jfile, u) = [ret |-> PyNone]

\* the resnums of universe 'u', set a second time in another order, were
\* deleted
C36_Witness ==
    /\ last.name = "del_resnums"
    /\ last.args = <<"u">>
    /\ last.hexc = ""
    /\ last.jexc = ""
    /\ calls = 2
    /\ HGetResnums(hprev, "u") = [ret |-> PyList(ResnumsB)]
    /\ JGetResnums(jprev, "u") = [ret |-> PyList(ResnumsB)]
    /\ HGetResnums(hfile, "u") = [ret |-> PyNone]
    /\ JGetResnums(jfile, "u") = [ret |-> PyNone]

(***************************************************************************)
(* Properties of the deletion of tags and categories, and of what is       *)
(* stored as a tag or as the value of a category.                          *)
(***************************************************************************)

\* the keys of the categories of the two files
HKeys(f) == {f.data.categories[i].category : i \in DOMAIN f.data.categories}
JKeys(f) == DOMAIN Deserialize(f.data).categories

\* C37: del_tags and del_categories raise nothing and remove exactly the
\* entries named: no tag given is a tag of the record afterwards, no key
\* given is a key of it, every other tag and category is as before, in its
\* place, and with all=True nothing is left, in both backends.
C37_DeleteNamed ==
    /\ last.name \in {"del_tags", "del_categories"} =>
        last.hexc = "" /\ last.jexc = ""
    /\ (last.name = "del_tags" /\ last.args[2]) => HTags = <<>> /\ JTags = <<>>
    /\ (last.name = "del_tags" /\ ~last.args[2]) =>
        LET tags == Range(last.args[1])
        IN /\ \A t \in tags : Str(t) \notin Range(HTags) /\ t \notin Range(JTags)
           /\ HTags = Keep(HTagsBefore,
                {i \in DOMAIN HTagsBefore :
                    HTagsBefore[i] \notin {Str(t) : t \in tags}})
           /\ JTags = Keep(JTagsBefore,
                {i \in DOMAIN JTagsBefore : JTagsBefore[i] \notin tags})
    /\ (last.name = "del_categories" /\ last.args[2]) =>
        HCategories = <<>> /\ JCategories = NoDict
    /\ (last.name = "del_categories" /\ ~last.args[2]) =>
        LET keys == Range(last.args[1])
        IN /\ HKeys(hfile) = HKeys(hprev) \ keys
           /\ JKeys(jfile) = JKeys(jprev) \ keys
           /\ HCategories = Keep(HCategoriesBefore,
                {i \in DOMAIN HCategoriesBefore :
                    HCategoriesBefore[i].category \notin keys})
           /\ \A k \in JKeys(jfile) : JCategories[k] = JCategoriesBefore[k]

\* every result of the body returned
AllReturn(results) == \A r \in results : r.exc = ""

\* C38: in the legacy backend, after a del_tags, del_categories or
\* del_member that left no row, by naming every row or with all=True, the
\* table is there and empty: the get_* that follows returns nothing and
\* raises nothing, and the add_* that follows returns and stores what it was
\* given.
C38_EmptiedTableStays ==
    /\ (last.name = "del_tags" /\ HTags = <<>>) =>
        /\ last.hexc = ""
        /\ "tags" \in hfile.data.nodes
        /\ AllReturn(TreantFileHDF5_get_tags(H))
        /\ GetTags(H) = <<>>
        /\ \A tags \in TagArgs :
            \A r \in TreantFileHDF5_add_tags(H, tags) :
                r.exc = "" /\ Range(r.rec.tags) = {Str(t) : t \in Range(tags)}
    /\ (last.name = "del_categories" /\ HCategories = <<>>) =>
        /\ last.hexc = ""
        /\ "categories" \in hfile.data.nodes
        /\ AllReturn(TreantFileHDF5_get_categories(H))
        /\ GetCategories(H) = NoDict
        /\ \A categories \in CategoryArgs :
            \A r \in TreantFileHDF5_add_categories(H, categories) :
                r.exc = "" /\ DOMAIN GetCategories(r.rec) = DOMAIN categories
    /\ (last.name = "del_member" /\ HMemberRows = <<>>) =>
        /\ last.hexc = ""
        /\ "members" \in hfile.data.nodes
        /\ GroupFileHDF5_get_members_uuid(H) = <<>>
        /\ \A uuid \in Uuids :
            /\ GroupFileHDF5_get_member(H, uuid) = {Returns(H, PyNone)}
            /\ \A r \in GroupFileHDF5_add_member(H, uuid, PyStr("Treant"),
                                                 Path(TRUE, <<"data", "m1">>), Location) :
                r.exc = "" /\ Len(r.rec.members) = 1

\* the two tags of the legacy file were deleted by naming both
C38_Witness ==
    /\ last.name = "del_tags"
    /\ last.args = <<<<TagA, TagB>>, FALSE>>
    /\ Len(HTagsBefore) = 2
    /\ HTags = <<>>

\* the arguments of the calls: a list and a dict are the values that are not
\* scalars; the numbers are none of 0 and 1, which Python holds equal to
\* False and True
ListValue == [ty |-> "list", v |-> "['a']"]
DictValue == [ty |-> "dict", v |-> "{}"]
Scalars ==
    {PyStr("a"), PyInt("7"), [ty |-> "float", v |-> "2.5"],
     [ty |-> "bool", v |-> "True"], PyNone}
MixedTagArgs ==
    {<<t>> : t \in Scalars \cup {ListValue, DictValue}}
        \cup {<<ListValue, TagA>>, <<PyInt("7"), DictValue, TagB>>}
MixedCategoryArgs ==
    {[k \in {"k"} |-> x] : x \in Scalars \cup {ListValue, DictValue}}
        \cup {[k \in {"k", "n"} |-> IF k = "k" THEN ListValue ELSE PyInt("7")]}

K_add_tags ==
    \E tags \in MixedTagArgs :
        Both("add_tags", <<tags>>,
             TreantFileHDF5_add_tags(H, tags),
             TreantFile_add_tags(JGroup, tags))

K_add_categories ==
    \E categories \in MixedCategoryArgs :
        Both("add_categories", <<categories>>,
             TreantFileHDF5_add_categories(H, categories),
             TreantFile_add_categories(JGroup, categories))

NextScalar ==
    \/ K_add_tags
    \/ K_add_categories

SpecScalar == InitGroup /\ [][NextScalar]_vars

\* a number, a string, a boolean or None
Acceptable(x) == x.ty \in {"int", "float", "str", "bool", "NoneType"}

====
